---- MODULE Spec2Model ----
(***************************************************************************)
(* Book-API: the transactional page transfer of the book repository and    *)
(* the authentication / authorization middleware chain of the router.      *)
(*                                                                         *)
(* SpecTransfer : calls of TransferPages (handler -> service -> repository)*)
(*                against the books table, one call at a time.            *)
(* Spec         : one HTTP request at a time walking a chain of middleware *)
(*                stages (JWTAuth, AllowRoles, EnforceOwnership,           *)
(*                AllowOwnerOrRole) down to the route handler.             *)
(* SpecRateLimit: requests of one client through middleware.RateLimit,     *)
(*                two at a time, while the clock advances.                 *)
(* SpecCompose  : one request at a time through applyMiddleware(h, ms...)  *)
(*                for every list ms of the stages of common.go.            *)
(* SpecPipeline : two requests at a time through Apply(h) and through the  *)
(*                stack NewRouter builds in front of the protected routes. *)
(* SpecConcurrent: calls of TransferPages between existing books, running *)
(*                at the same time on transactions of one database.       *)
(* SpecBooks    : one request at a time for the routes that change the    *)
(*                books table, down to PostBook, PutBook, DeleteBook and  *)
(*                TransferPages of BookHandler.                           *)
(***************************************************************************)
EXTENDS Integers, Sequences, FiniteSets, TLC

VARIABLES
    books,      \* the books table: id -> row (committed state)
    calls,      \* slot -> the TransferPages call running in it
    ncalls,     \* number of TransferPages calls started so far
    concurrent, \* whether the clients issue transfer calls concurrently
    rq,         \* the HTTP request walking the middleware chain
    visitors,   \* the rate limiter's map: client address -> *rateLimitEntry
    entries,    \* the rateLimitEntry values the pointers refer to
    mu,         \* the rate limiter's mutex: the goroutine holding it, or 0
    now,        \* time.Now(), in seconds
    gs,         \* goroutine -> the request it serves through a composed chain
    hist        \* history of the run, for the properties

vars == <<books, calls, ncalls, concurrent, rq, visitors, entries, mu, now, gs, hist>>

\* the table, the transfer calls and the single request of Spec
store == <<books, calls, ncalls, concurrent, rq>>

\* the rate limiter and the goroutines of the composed chains
limiter == <<visitors, entries, mu, now, gs, hist>>

----------------------------------------------------------------------------
(* Bounds *)

MaxBookId == 2
MaxPages == 2
MaxCalls == 2
NumSlots == 2
MaxUserId == 2
MaxAllowed == 2

BookIds == 1..MaxBookId
Slots == 1..NumSlots
UserIds == 0..MaxUserId

----------------------------------------------------------------------------
(* The books table *)

NullOwner == -1

NoRow == [exists |-> FALSE, pages |-> 0, owner |-> NullOwner]

Row(p, o) == [exists |-> TRUE, pages |-> p, owner |-> o]

\* pages stored under an id; an id without a row stores nothing
PagesAt(tbl, id) ==
    IF id \in DOMAIN tbl /\ tbl[id].exists THEN tbl[id].pages ELSE 0

----------------------------------------------------------------------------
(* models.TransferRequest and its validation *)

TransferRequest(from, to, pages) == [FromID |-> from, ToID |-> to, Pages |-> pages]

NoRequest == TransferRequest(0, 0, 0)

Requests ==
    { TransferRequest(f, t, p) : f \in 0..MaxBookId, t \in 0..MaxBookId, p \in (-1)..MaxPages }

\* bookService.validateTransferRequest: the error it returns, "" for nil
validateTransferRequest(req) ==
    IF req.FromID <= 0 THEN "Sender Book ID is invalid"
    ELSE IF req.ToID <= 0 THEN "Receiver Book ID is invalid"
    ELSE IF req.Pages < 0 THEN "Pages must be greater or equal to 0"
    ELSE ""

\* BookHandler.TransferPages step 3: the handler's own check of the decoded body
HandlerRejects(req) == req.FromID <= 0 \/ req.ToID <= 0 \/ req.Pages <= 0

\* BookHandler.TransferPages steps 5-6: the status written for the service's result
HandlerStatus(err) == IF err # "" THEN 500 ELSE 200

----------------------------------------------------------------------------
(* One TransferPages call *)

NoWrite == [set |-> FALSE, val |-> 0]

NoWrites == [b \in BookIds |-> NoWrite]

IdleCall ==
    [ pc        |-> "idle",
      entry     |-> "",
      req       |-> NoRequest,
      err       |-> "",        \* the local variable err of the repository method
      ret       |-> "",        \* the value the repository method returns
      panicking |-> FALSE,
      tx        |-> "none",    \* none | open | committed | rolledback | aborted
      ncommit   |-> 0,         \* calls of tx.Commit
      nrollback |-> 0,         \* calls of tx.Rollback
      w         |-> NoWrites,  \* rows written (and locked) by the open transaction
      failedAt  |-> "",        \* the storage step that failed, if any
      execs     |-> 0,         \* UPDATE statements that succeeded
      status    |-> 0,         \* HTTP status written by the handler, 0 = none
      pre       |-> <<>> ]     \* the table when the call started

Finished(c) == c.pc \in {"returned", "panicked"}

\* the row a statement of transaction t sees: its own write, else the committed row
Visible(t, b) ==
    IF calls[t].w[b].set THEN calls[t].w[b].val ELSE books[b].pages

\* a store whose UPDATE does not wait for the row lock of another transaction
LockedByOther_NoLocks(t, b) == FALSE

\* row b is locked by a transaction other than t
LockedByOther(t, b) == \E u \in Slots \ {t} : calls[u].w[b].set

\* an UPDATE that leaves the row alone when pages would go below zero
UpdatePages_Floor(t, b, delta) ==
    IF b \in BookIds /\ books[b].exists /\ Visible(t, b) + delta >= 0
    THEN [calls[t].w EXCEPT ![b] = [set |-> TRUE, val |-> Visible(t, b) + delta]]
    ELSE calls[t].w

\* UPDATE books SET pages = pages + delta WHERE id = b, inside transaction t
UpdatePages(t, b, delta) ==
    IF b \in BookIds /\ books[b].exists
    THEN [calls[t].w EXCEPT ![b] = [set |-> TRUE, val |-> Visible(t, b) + delta]]
    ELSE calls[t].w

\* COMMIT: the transaction's writes become the committed rows
ApplyWrites(tbl, w) ==
    [b \in BookIds |-> IF w[b].set THEN [tbl[b] EXCEPT !.pages = w[b].val] ELSE tbl[b]]

\* a deferred closure that commits whenever the call is not panicking
DeferredResolve_CommitOnError(panicking, err) ==
    IF panicking THEN "rollback" ELSE "commit"

\* a deferred closure without the recover() branch
DeferredResolve_NoRecover(panicking, err) ==
    IF panicking THEN "none"
    ELSE IF err # "" THEN "rollback"
    ELSE "commit"

\* the deferred closure of TransferPages: what it does with the transaction
DeferredResolve(panicking, err) ==
    IF panicking THEN "rollback"
    ELSE IF err # "" THEN "rollback"
    ELSE "commit"

----------------------------------------------------------------------------
(* TransferPages: handler -> service -> repository *)

\* every other slot is free: its goroutine has ended
NoneRunning(t) == \A u \in Slots \ {t} : calls[u].pc = "idle"

\* POST /books/transfer reaches BookHandler.TransferPages, or a caller invokes
\* bookService.TransferPages directly; the checks ahead of the repository run.
StartTransferOf(t, entryPoints, reqs) ==
    /\ calls[t].pc = "idle"
    /\ \A u \in Slots : u < t => calls[u].pc # "idle"   \* the first free slot serves it
    /\ ncalls < MaxCalls
    /\ concurrent \/ NoneRunning(t)
    /\ \E entry \in entryPoints, req \in reqs :
        LET c0 == [calls[t] EXCEPT !.entry = entry, !.req = req, !.pre = books]
            verr == validateTransferRequest(req)
        IN calls' = [calls EXCEPT ![t] =
              IF entry = "handler" /\ HandlerRejects(req)
              THEN [c0 EXCEPT !.pc = "returned", !.status = 400]
              ELSE IF verr # ""
              THEN [c0 EXCEPT !.pc = "returned", !.ret = verr,
                              !.status = IF entry = "handler" THEN HandlerStatus(verr) ELSE 0]
              ELSE [c0 EXCEPT !.pc = "begin"]]
    /\ ncalls' = ncalls + 1
    /\ UNCHANGED <<limiter, books, concurrent, rq>>

\* a transfer call with any body, through the handler or the service
StartTransfer(t) == StartTransferOf(t, {"handler", "service"}, Requests)

\* the call leaves the repository with result ret; service and handler pass it on
Leave(c) ==
    [c EXCEPT !.pc = "returned",
              !.status = IF c.entry = "handler" THEN HandlerStatus(c.ret) ELSE 0]

\* tx, err := r.DB.Begin(); if err != nil { return err }
Begin(t) ==
    /\ calls[t].pc = "begin"
    /\ \E ok \in BOOLEAN :
        calls' = [calls EXCEPT ![t] =
            IF ok
            THEN [@ EXCEPT !.pc = "exec1", !.tx = "open"]
            ELSE Leave([@ EXCEPT !.err = "begin failed", !.ret = "begin failed",
                                 !.failedAt = "begin"])]
    /\ UNCHANGED <<limiter, books, ncalls, concurrent, rq>>

\* one tx.Exec(UPDATE ...) of TransferPages: it succeeds, returns an error or panics
Exec(t, at, next, b, delta) ==
    /\ calls[t].pc = at
    /\ \E outcome \in {"ok", "error", "panic"} :
        /\ outcome = "ok" => ~(b \in BookIds /\ books[b].exists /\ LockedByOther(t, b))
        /\ calls' = [calls EXCEPT ![t] =
            CASE outcome = "ok" ->
                    [@ EXCEPT !.pc = next, !.w = UpdatePages(t, b, delta),
                              !.execs = @ + 1]
              [] outcome = "error" ->
                    [@ EXCEPT !.pc = "defer", !.err = "exec failed", !.ret = "exec failed",
                              !.failedAt = at]
              [] OTHER ->
                    [@ EXCEPT !.pc = "defer", !.panicking = TRUE, !.failedAt = at]]
    /\ UNCHANGED <<limiter, books, ncalls, concurrent, rq>>

\* UPDATE books SET pages = pages - $1 WHERE id = $2   (req.Pages, req.FromID)
Exec1(t) == Exec(t, "exec1", "exec2", calls[t].req.FromID, 0 - calls[t].req.Pages)

\* UPDATE books SET pages = pages + $1 WHERE id = $2   (req.Pages, req.ToID); return nil
Exec2(t) == Exec(t, "exec2", "defer", calls[t].req.ToID, calls[t].req.Pages)

\* the account m of pages moved, with the quantity of a committed transfer req
\* added to its destination and taken off its source
Moved(m, req) ==
    [b \in BookIds |->
        m[b] + (IF b = req.ToID THEN req.Pages ELSE 0)
             - (IF b = req.FromID THEN req.Pages ELSE 0)]

\* the deferred closure runs, then the call returns ret or goes on panicking
Defer(t) ==
    /\ calls[t].pc = "defer"
    /\ LET c == calls[t]
           what == DeferredResolve(c.panicking, c.err)
       IN CASE what = "rollback" ->
                 /\ books' = books
                 /\ hist' = hist
                 /\ calls' = [calls EXCEPT ![t] =
                       LET r == [c EXCEPT !.tx = "rolledback", !.nrollback = @ + 1,
                                          !.w = NoWrites]
                       IN IF c.panicking
                          THEN [r EXCEPT !.pc = "panicked"]
                          ELSE Leave(r)]
            [] what = "commit" ->
                 \E ok \in BOOLEAN :
                    LET tbl == IF ok THEN ApplyWrites(books, c.w) ELSE books
                    IN /\ books' = tbl
                       \* the account of pages moved is kept for concurrent calls
                       /\ hist' = IF ok /\ concurrent
                                  THEN [hist EXCEPT !.moved = Moved(@, c.req)]
                                  ELSE hist
                       /\ calls' = [calls EXCEPT ![t] =
                             Leave([c EXCEPT !.tx = IF ok THEN "committed" ELSE "aborted",
                                             !.ncommit = @ + 1,
                                             !.w = NoWrites,
                                             \* err = tx.Commit() assigns the local variable
                                             \* after the result (unnamed) has been set
                                             !.err = IF ok THEN "" ELSE "commit failed",
                                             !.failedAt = IF ok THEN c.failedAt ELSE "commit"])]
            [] OTHER ->
                 /\ books' = books
                 /\ hist' = hist
                 /\ calls' = [calls EXCEPT ![t] =
                       IF c.panicking
                       THEN [c EXCEPT !.pc = "panicked"]
                       ELSE Leave(c)]
    /\ UNCHANGED <<visitors, entries, mu, now, gs, ncalls, concurrent, rq>>

\* the goroutine that served the call ends; its slot serves the next call
EndCall(t) ==
    /\ Finished(calls[t])
    /\ calls' = [calls EXCEPT ![t] = IdleCall]
    /\ UNCHANGED <<limiter, books, ncalls, concurrent, rq>>

----------------------------------------------------------------------------
(* Session tokens: security.GenerateToken / security.ParseToken *)

Secret == "k1"

Keys == {"k1", "k2"}

Roles == {"", "user", "admin"}

\* a user id beyond what a 24-bit mantissa holds exactly
BigUserId == 2^24 + 1

TokenUserIds == UserIds \cup {BigUserId}

\* a JSON value of a claim set: absent, a number or a string
Absent == [t |-> "absent", n |-> 0, s |-> ""]

Num(n) == [t |-> "num", n |-> n, s |-> ""]

Str(s) == [t |-> "str", n |-> 0, s |-> s]

Token(kind, key, expired, uid, role) ==
    [kind |-> kind, key |-> key, expired |-> expired, user_id |-> uid, user_role |-> role]

\* jwt.NewWithClaims(HS256, {user_id, user_role, exp, iat}).SignedString(secret),
\* seen `expired` = whether more than 24 hours have passed since
GenerateToken(userID, userRole, secret, expired) ==
    Token("jwt", secret, expired, Num(userID), Str(userRole))

RECURSIVE BitLen(_)
BitLen(n) == IF n = 0 THEN 0 ELSE 1 + BitLen(n \div 2)

RECURSIVE Pow2(_)
Pow2(k) == IF k = 0 THEN 1 ELSE 2 * Pow2(k - 1)

\* the nearest value with a mantissa of `bits` bits, ties to even
RoundToMantissa(n, bits) ==
    IF BitLen(n) <= bits THEN n
    ELSE LET q  == Pow2(BitLen(n) - bits)
             lo == (n \div q) * q
             r  == n - lo
         IN IF 2 * r < q THEN lo
            ELSE IF 2 * r > q THEN lo + q
            ELSE IF (lo \div q) % 2 = 0 THEN lo ELSE lo + q

MantissaBits == 53

\* a decoder that keeps the number in a float32
Float32OfNumber(n) == RoundToMantissa(n, 24)

\* encoding/json decodes a JSON number of MapClaims into a float64
Float64OfNumber(n) == RoundToMantissa(n, MantissaBits)

\* int(f) for an integral float64
IntOfFloat64(f) == f

NoClaims == [ok |-> FALSE, user_id |-> Absent, user_role |-> Absent]

\* a ParseToken that does not validate the exp claim
ParseToken_IgnoreExpiry(tok, secret) ==
    IF tok.kind # "jwt" \/ tok.key # secret
    THEN [ok |-> FALSE, user_id |-> Absent, user_role |-> Absent]
    ELSE [ok |-> TRUE, user_id |-> tok.user_id, user_role |-> tok.user_role]

\* a ParseToken that accepts a signature made with any key
ParseToken_AnyKey(tok, secret) ==
    IF tok.kind # "jwt" \/ tok.expired
    THEN [ok |-> FALSE, user_id |-> Absent, user_role |-> Absent]
    ELSE [ok |-> TRUE, user_id |-> tok.user_id, user_role |-> tok.user_role]

\* ParseToken: the claims, or an error (ok = FALSE) for a string that is no JWT,
\* a signature made with another key, or an expired token
ParseToken(tok, secret) ==
    IF tok.kind # "jwt" \/ tok.key # secret \/ tok.expired
    THEN NoClaims
    ELSE [ok |-> TRUE,
          user_id |-> IF tok.user_id.t = "num"
                      THEN Num(Float64OfNumber(tok.user_id.n)) ELSE tok.user_id,
          user_role |-> tok.user_role]

----------------------------------------------------------------------------
(* The owner lookup: PgBookRepository.GetOwnerID behind bookService.GetOwnerID *)

\* SELECT owner_id FROM books WHERE id = $1, scanned into an int
RepoGetOwnerID(tbl, bookID, fault) ==
    IF fault THEN [owner |-> 0, err |-> "storage error"]
    ELSE IF ~(bookID \in DOMAIN tbl /\ tbl[bookID].exists)
    THEN [owner |-> 0, err |-> "sql: no rows in result set"]
    ELSE IF tbl[bookID].owner = NullOwner THEN [owner |-> 0, err |-> "sql: Scan error"]
    ELSE [owner |-> tbl[bookID].owner, err |-> ""]

GetOwnerID(tbl, bookID, fault) ==
    LET r == RepoGetOwnerID(tbl, bookID, fault)
    IN IF r.err # "" THEN [owner |-> 0, err |-> r.err]
       ELSE IF r.owner = 0 THEN [owner |-> 0, err |-> "Book not found."]
       ELSE r

\* a role check that looks at the first role of the list only
RoleSet_FirstOnly(allowed) == { allowed[i] : i \in DOMAIN allowed \cap {1} }

\* the set built from the variadic allow-list
RoleSet(allowed) == { allowed[i] : i \in DOMAIN allowed }

----------------------------------------------------------------------------
(* The middleware stages *)

NoToken == Token("none", "", FALSE, Absent, Absent)

\* the Authorization header: absent (scheme ""), another scheme, or Bearer <token>
Header(scheme, tok) == [scheme |-> scheme, tok |-> tok]

\* the {id} URL parameter: decimal digits of n, or text that is no integer
Param(isInt, n) == [isInt |-> isInt, n |-> n]

\* strconv.Atoi
Atoi(p) == IF p.isInt THEN [n |-> p.n, err |-> FALSE] ELSE [n |-> 0, err |-> TRUE]

\* the request context values under UserIDKey and UserRoleKey
NoCtx == [hasID |-> FALSE, userID |-> 0, hasRole |-> FALSE, userRole |-> ""]

NoLookup == [done |-> FALSE, owner |-> 0, err |-> ""]

Lookup(r) == [done |-> TRUE, owner |-> r.owner, err |-> r.err]

\* what a stage does: pass on to next, answer (utils.WriteSafeError), or panic
CallNext(ctx, lookup) ==
    [next |-> TRUE, panic |-> FALSE, status |-> 0, msg |-> "", ctx |-> ctx, lookup |-> lookup]

Answer(status, msg, ctx, lookup) ==
    [next |-> FALSE, panic |-> FALSE, status |-> status, msg |-> msg, ctx |-> ctx,
     lookup |-> lookup]

Panic(ctx, lookup) ==
    [next |-> FALSE, panic |-> TRUE, status |-> 0, msg |-> "", ctx |-> ctx, lookup |-> lookup]

\* middleware.JWTAuth(secret)
JWTAuth(hdr, ctx) ==
    IF hdr.scheme # "Bearer" THEN Answer(401, "Unauthorized", ctx, NoLookup)
    ELSE LET claims == ParseToken(hdr.tok, Secret)
         IN IF ~claims.ok THEN Answer(401, "Invalid or expired token.", ctx, NoLookup)
            ELSE IF claims.user_id.t = "absent"
            THEN Answer(401, "Missing user_id in token.", ctx, NoLookup)
            ELSE IF claims.user_role.t = "absent"
            THEN Answer(401, "Missing user_role in token.", ctx, NoLookup)
            \* userIDRaw.(float64) and userRoleRaw.(string): unchecked type assertions
            ELSE IF claims.user_id.t # "num" \/ claims.user_role.t # "str"
            THEN Panic(ctx, NoLookup)
            ELSE CallNext([hasID |-> TRUE, userID |-> IntOfFloat64(claims.user_id.n),
                           hasRole |-> TRUE, userRole |-> claims.user_role.s], NoLookup)

\* middleware.AllowRoles(allowed...)
AllowRoles(allowed, ctx) ==
    IF ~ctx.hasRole \/ ctx.userRole = ""
    THEN Answer(403, "Forbidden: no role provided", ctx, NoLookup)
    ELSE IF ctx.userRole \notin RoleSet(allowed)
    THEN Answer(403, "Forbidden: insufficient role", ctx, NoLookup)
    ELSE CallNext(ctx, NoLookup)

\* an ownership check that drops the loader's error
EnforceOwnership_IgnoreLookupError(ctx, param, tbl, fault) ==
    IF ~ctx.hasID THEN Answer(401, "Unauthorized", ctx, NoLookup)
    ELSE IF Atoi(param).err THEN Answer(400, "Invalid ID", ctx, NoLookup)
    ELSE LET r == GetOwnerID(tbl, Atoi(param).n, fault)
         IN IF ctx.userID # r.owner
            THEN Answer(403, "Forbidden: not owner", ctx, Lookup(r))
            ELSE CallNext(ctx, Lookup(r))

\* middleware.EnforceOwnership("id", loader) with loader = h.Service.GetOwnerID
EnforceOwnership(ctx, param, tbl, fault) ==
    IF ~ctx.hasID THEN Answer(401, "Unauthorized", ctx, NoLookup)
    ELSE IF Atoi(param).err THEN Answer(400, "Invalid ID", ctx, NoLookup)
    ELSE LET r == GetOwnerID(tbl, Atoi(param).n, fault)
         IN IF r.err # "" THEN Answer(500, "Could not verify ownership", ctx, Lookup(r))
            ELSE IF ctx.userID # r.owner
            THEN Answer(403, "Forbidden: not owner", ctx, Lookup(r))
            ELSE CallNext(ctx, Lookup(r))

\* middleware.AllowOwnerOrRole("id", loader, UserRoleKey, allowedRoles...)
AllowOwnerOrRole(allowed, ctx, param, tbl, fault) ==
    LET role == IF ctx.hasRole THEN ctx.userRole ELSE ""
    IN  \* r.Context().Value(UserIDKey).(int): unchecked type assertion
        IF ~ctx.hasID THEN Panic(ctx, NoLookup)
        ELSE LET r == GetOwnerID(tbl, Atoi(param).n, fault)   \* both errors dropped
                 isAllowed == role \in RoleSet(allowed)
             IN IF ctx.userID # r.owner /\ ~isAllowed
                THEN Answer(403, "Forbidden", ctx, Lookup(r))
                ELSE CallNext(ctx, Lookup(r))

----------------------------------------------------------------------------
(* Routes: the chain of stages chi runs for a request, outermost first *)

Stage(name, allowed) == [name |-> name, allowed |-> allowed]

StJWTAuth == Stage("JWTAuth", <<>>)

StEnforceOwnership == Stage("EnforceOwnership", <<>>)

StHandler == Stage("Handler", <<>>)

\* the variadic role lists a route may be registered with
AllowLists == UNION { [1..k -> Roles] : k \in 0..MaxAllowed }

\* BookHandler.RegisterRoutes behind r.With(middleware.JWTAuth(cfg.JWTSecret))
ChainOf(route, allowed) ==
    CASE route = "GET /books" -> <<StJWTAuth, StHandler>>
      [] route = "POST /books/transfer" ->
            <<StJWTAuth, Stage("AllowRoles", allowed), StHandler>>
      [] route = "PUT /books/{id}" -> <<StJWTAuth, StEnforceOwnership, StHandler>>
      [] route = "DELETE /books/{id}" ->
            <<StJWTAuth, StEnforceOwnership, Stage("AllowRoles", allowed), StHandler>>
      [] OTHER -> <<StJWTAuth, Stage("AllowOwnerOrRole", allowed), StHandler>>

NoParam == Param(FALSE, 0)

Params == { Param(TRUE, n) : n \in 1..(MaxBookId + 1) } \cup {NoParam}

Chains ==
    {ChainOf("GET /books", <<>>), ChainOf("PUT /books/{id}", <<>>),
     ChainOf("DELETE /books/{id}", <<"admin">>)}
    \cup { ChainOf("POST /books/transfer", a) : a \in AllowLists }
    \cup { ChainOf("owner-or-role /books/{id}", a) : a \in { l \in AllowLists : Len(l) <= 1 } }

HasParam(chain) ==
    \E i \in DOMAIN chain : chain[i].name \in {"EnforceOwnership", "AllowOwnerOrRole"}

\* the tokens a client may send: issued by GenerateToken under the server's or
\* another key, within or past their 24 hours; signed with the server's key but
\* with other claim sets; or text that is no JWT
UserIDClaims == {Absent, Str("abc")} \cup { Num(n) : n \in TokenUserIds }

UserRoleClaims == {Absent, Num(7)} \cup { Str(r) : r \in Roles }

Tokens ==
    { Token("jwt", Secret, FALSE, u, r) : u \in UserIDClaims, r \in UserRoleClaims }
    \cup { GenerateToken(1, "admin", k, e) : k \in Keys, e \in BOOLEAN }
    \cup { Token("garbage", "", FALSE, Absent, Absent) }

Headers ==
    {Header("", NoToken), Header("Basic", NoToken)}
    \cup { Header("Bearer", tok) : tok \in Tokens }

IdleRq ==
    [ pc       |-> "idle",
      hdr      |-> Header("", NoToken),
      param    |-> NoParam,
      chain    |-> <<>>,
      pos      |-> 0,           \* the stage about to run
      ctx      |-> NoCtx,
      status   |-> 0,           \* status of the response written, 0 = none
      msg      |-> "",
      trace    |-> <<>>,        \* names of the stages entered, in order
      lookups  |-> 0,           \* calls of the owner loader
      lookup   |-> NoLookup,    \* what the loader returned
      panicked |-> FALSE,
      body     |-> [decodes |-> FALSE, Title |-> "", Author |-> "", Pages |-> 0,
                    FromID |-> 0, ToID |-> 0],
      writes   |-> 0,           \* responses written by the route handler
      service  |-> <<>> ]       \* methods of h.Service the route handler called

\* a request arrives at the router
NewRequest ==
    /\ rq.pc = "idle"
    /\ \E hdr \in Headers, chain \in Chains, param \in Params :
        /\ HasParam(chain) \/ param = NoParam
        /\ rq' = [IdleRq EXCEPT !.pc = "run", !.hdr = hdr, !.param = param,
                                !.chain = chain, !.pos = 1]
    /\ UNCHANGED <<limiter, books, calls, ncalls, concurrent>>

AtStage(name) ==
    /\ rq.pc = "run"
    /\ rq.pos \in DOMAIN rq.chain
    /\ rq.chain[rq.pos].name = name

\* the stage at rq.pos ran and decided d
Decide(d) ==
    LET r == [rq EXCEPT !.trace = Append(@, rq.chain[rq.pos].name),
                        !.ctx = d.ctx,
                        !.lookup = IF d.lookup.done THEN d.lookup ELSE @,
                        !.lookups = IF d.lookup.done THEN @ + 1 ELSE @]
    IN rq' = IF d.next THEN [r EXCEPT !.pos = @ + 1]
             ELSE IF d.panic THEN [r EXCEPT !.pc = "done", !.panicked = TRUE]
             ELSE [r EXCEPT !.pc = "done", !.status = d.status, !.msg = d.msg]

RunJWTAuth ==
    /\ AtStage("JWTAuth")
    /\ Decide(JWTAuth(rq.hdr, rq.ctx))
    /\ UNCHANGED <<limiter, books, calls, ncalls, concurrent>>

RunAllowRoles ==
    /\ AtStage("AllowRoles")
    /\ Decide(AllowRoles(rq.chain[rq.pos].allowed, rq.ctx))
    /\ UNCHANGED <<limiter, books, calls, ncalls, concurrent>>

RunEnforceOwnership ==
    /\ AtStage("EnforceOwnership")
    /\ \E fault \in BOOLEAN : Decide(EnforceOwnership(rq.ctx, rq.param, books, fault))
    /\ UNCHANGED <<limiter, books, calls, ncalls, concurrent>>

RunAllowOwnerOrRole ==
    /\ AtStage("AllowOwnerOrRole")
    /\ \E fault \in BOOLEAN :
          Decide(AllowOwnerOrRole(rq.chain[rq.pos].allowed, rq.ctx, rq.param, books, fault))
    /\ UNCHANGED <<limiter, books, calls, ncalls, concurrent>>

\* the route handler runs and answers
RunHandler ==
    /\ AtStage("Handler")
    /\ rq' = [rq EXCEPT !.trace = Append(@, "Handler"), !.pc = "done", !.status = 200]
    /\ UNCHANGED <<limiter, books, calls, ncalls, concurrent>>

\* the response is sent; the server takes the next request
EndRequest ==
    /\ rq.pc = "done"
    /\ rq' = IdleRq
    /\ UNCHANGED <<limiter, books, calls, ncalls, concurrent>>

----------------------------------------------------------------------------
(* The book handlers: BookHandler over bookService and PgBookRepository *)

\* a request body: JSON that decodes into models.Book or models.TransferRequest
\* (the fields the other type has are left zero), or text json cannot decode
Body(decodes, title, author, pages, from, to) ==
    [decodes |-> decodes, Title |-> title, Author |-> author, Pages |-> pages,
     FromID |-> from, ToID |-> to]

NoBody == Body(FALSE, "", "", 0, 0, 0)

\* bookService.validateBook: the error it returns, "" for nil
validateBook(book) ==
    IF book.Title = "" THEN "Title is required"
    ELSE IF book.Author = "" THEN "Author is required"
    ELSE IF book.Pages <= 0 THEN "Pages must be greater than 0"
    ELSE ""

\* what a repository method returns: the table it leaves and its error
Stored(tbl, err) == [tbl |-> tbl, err |-> err]

\* the id the books_id_seq sequence hands out: one that names no row
NextID(tbl) == CHOOSE id \in BookIds : ~tbl[id].exists /\ \A j \in BookIds : ~tbl[j].exists => id <= j

\* PgBookRepository.Create: INSERT INTO books (title, author, pages, owner_id)
Create(tbl, book, owner, fault) ==
    IF fault \/ \A id \in BookIds : tbl[id].exists THEN Stored(tbl, "storage error")
    ELSE Stored([tbl EXCEPT ![NextID(tbl)] = Row(book.Pages, owner)], "")

\* an UPDATE that also writes the owner_id column
Update_SetsOwner(tbl, id, book, fault) ==
    IF fault THEN Stored(tbl, "storage error")
    ELSE IF ~(id \in BookIds /\ tbl[id].exists) THEN Stored(tbl, "Book Not Found.")
    ELSE Stored([tbl EXCEPT ![id] = Row(book.Pages, 0)], "")

\* PgBookRepository.Update: UPDATE books SET title=$1, author=$2, pages=$3 WHERE id=$4
Update(tbl, id, book, fault) ==
    IF fault THEN Stored(tbl, "storage error")
    ELSE IF ~(id \in BookIds /\ tbl[id].exists) THEN Stored(tbl, "Book Not Found.")
    ELSE Stored([tbl EXCEPT ![id].pages = book.Pages], "")

\* PgBookRepository.Delete: DELETE FROM books WHERE id = $1
Delete(tbl, id, fault) ==
    IF fault THEN Stored(tbl, "storage error")
    ELSE IF ~(id \in BookIds /\ tbl[id].exists) THEN Stored(tbl, "Book Not Found.")
    ELSE Stored([tbl EXCEPT ![id] = NoRow], "")

\* UPDATE books SET pages = pages + delta WHERE id = b, on table tbl
AddPages(tbl, b, delta) ==
    IF b \in BookIds /\ tbl[b].exists THEN [tbl EXCEPT ![b].pages = @ + delta] ELSE tbl

\* PgBookRepository.TransferPages run by one request alone: both UPDATEs are
\* committed; or a statement fails and the transaction is rolled back; or the
\* commit fails, nothing is stored and nil is returned all the same
Transfer(tbl, req, outcome) ==
    CASE outcome = "ok" ->
            Stored(AddPages(AddPages(tbl, req.FromID, 0 - req.Pages), req.ToID, req.Pages), "")
      [] outcome = "commit failed" -> Stored(tbl, "")
      [] OTHER -> Stored(tbl, "storage error")

\* one response written to w: utils.WriteJSON, WriteError or WriteSafeError
Resp(status, msg) == [status |-> status, msg |-> msg]

\* what a handler has done when it returns: the responses it wrote, in order,
\* the methods of h.Service it called, and the table it leaves
Handled(writes, service, tbl) == [writes |-> writes, service |-> service, tbl |-> tbl]

\* BookHandler.PostBook
PostBook(ctx, body, tbl, fault) ==
    IF ~ctx.hasID THEN Handled(<<Resp(401, "Unauthorized")>>, <<>>, tbl)
    ELSE IF ~body.decodes THEN Handled(<<Resp(400, "Invalid Inputs.")>>, <<>>, tbl)
    ELSE IF validateBook(body) # ""
    THEN Handled(<<Resp(500, "Server Error.")>>, <<"CreateBook">>, tbl)
    ELSE LET r == Create(tbl, body, ctx.userID, fault)
         IN Handled(<<IF r.err # "" THEN Resp(500, "Server Error.") ELSE Resp(201, "")>>,
                    <<"CreateBook">>, r.tbl)

\* the response for a URL id that is no integer: the handler goes on after it
BadID(param) ==
    IF Atoi(param).err THEN <<Resp(400, "Invalid id input.")>> ELSE <<>>

\* BookHandler.PutBook
PutBook(param, body, tbl, fault) ==
    IF ~body.decodes
    THEN Handled(BadID(param) \o <<Resp(400, "Invalid inputs.")>>, <<>>, tbl)
    ELSE LET r == IF validateBook(body) # "" THEN Stored(tbl, validateBook(body))
                  ELSE Update(tbl, Atoi(param).n, body, fault)
         IN Handled(BadID(param)
                    \o <<IF r.err # "" THEN Resp(404, "Book Not Found.") ELSE Resp(200, "")>>,
                    <<"UpdateBook">>, r.tbl)

\* BookHandler.DeleteBook
DeleteBook(param, tbl, fault) ==
    LET r == Delete(tbl, Atoi(param).n, fault)
    IN Handled(BadID(param)
               \o <<IF r.err # "" THEN Resp(404, "Book Not Found.") ELSE Resp(204, "")>>,
               <<"DeleteBook">>, r.tbl)

\* BookHandler.TransferPages, reached with the method POST it is registered for
TransferPages(body, tbl, outcome) ==
    IF ~body.decodes THEN Handled(<<Resp(400, "Invalid Inputs.")>>, <<>>, tbl)
    ELSE IF HandlerRejects(body)
    THEN Handled(<<Resp(400, "Missing/Invalid JSON Field values.")>>, <<>>, tbl)
    ELSE IF validateTransferRequest(body) # ""
    THEN Handled(<<Resp(HandlerStatus(validateTransferRequest(body)), "Transfer failed")>>,
                 <<"TransferPages">>, tbl)
    ELSE LET r == Transfer(tbl, body, outcome)
         IN Handled(<<Resp(HandlerStatus(r.err),
                           IF r.err # "" THEN "Transfer failed" ELSE "")>>,
                    <<"TransferPages">>, r.tbl)

\* the routes of the books that change the table
BookRoutes == {"POST /books", "POST /books/transfer", "PUT /books/{id}", "DELETE /books/{id}"}

HandlerOf(route) ==
    CASE route = "POST /books" -> "PostBook"
      [] route = "POST /books/transfer" -> "TransferPages"
      [] route = "PUT /books/{id}" -> "PutBook"
      [] OTHER -> "DeleteBook"

\* a registration that leaves AllowRoles("admin") out of DELETE /books/{id}
RegisterRoutes_DeleteByOwner(route) ==
    LET chain == IF route = "POST /books" THEN ChainOf("GET /books", <<>>)
                 ELSE IF route = "DELETE /books/{id}" THEN ChainOf("PUT /books/{id}", <<>>)
                 ELSE ChainOf(route, <<"admin">>)
    IN [chain EXCEPT ![Len(chain)] = Stage(HandlerOf(route), <<>>)]

\* BookHandler.RegisterRoutes behind r.With(middleware.JWTAuth(cfg.JWTSecret)),
\* with the handler each route ends in
RegisterRoutes(route) ==
    LET chain == IF route = "POST /books" THEN ChainOf("GET /books", <<>>)
                 ELSE ChainOf(route, <<"admin">>)
    IN [chain EXCEPT ![Len(chain)] = Stage(HandlerOf(route), <<>>)]

\* the router of the handler tests: r.Put("/books/{id}", handler.PutBook), ...
TestRouter(route) == <<Stage(HandlerOf(route), <<>>)>>

\* the ids of the rows of users: id SERIAL PRIMARY KEY
Users == UserIds \ {0}

\* tokens of the users, as GenerateToken issues them at login
BookHeaders ==
    {Header("", NoToken)}
    \cup { Header("Bearer", GenerateToken(u, role, Secret, FALSE)) :
           u \in Users, role \in {"user", "admin"} }

\* bodies of POST /books and PUT /books/{id}
BookBodies ==
    {NoBody, Body(TRUE, "T", "A", MaxPages, 0, 0), Body(TRUE, "", "A", MaxPages, 0, 0),
     Body(TRUE, "T", "", MaxPages, 0, 0), Body(TRUE, "T", "A", 0, 0, 0)}

\* bodies of POST /books/transfer
TransferBodies ==
    {NoBody} \cup { Body(TRUE, "", "", p, f, 2) : f \in {0, 1}, p \in {0, 1} }

BodiesOf(route) ==
    CASE route \in {"POST /books", "PUT /books/{id}"} -> BookBodies
      [] route = "POST /books/transfer" -> TransferBodies
      [] OTHER -> {NoBody}

\* a request for a book route arrives, at the server's router or at the tests'
NewBookRequest ==
    /\ rq.pc = "idle"
    /\ \E route \in BookRoutes, served \in BOOLEAN, hdr \in BookHeaders, param \in Params :
        /\ route \in {"PUT /books/{id}", "DELETE /books/{id}"} \/ param = NoParam
        /\ served \/ hdr = Header("", NoToken)
        /\ \E body \in BodiesOf(route) :
              rq' = [IdleRq EXCEPT
                        !.pc = "run", !.hdr = hdr, !.param = param, !.body = body,
                        !.chain = IF served THEN RegisterRoutes(route) ELSE TestRouter(route),
                        !.pos = 1]
    /\ UNCHANGED <<limiter, books, calls, ncalls, concurrent>>

\* the handler at rq.pos ran as h says: the first response written is the one
\* sent, the table is as the handler leaves it
Respond(h) ==
    /\ rq' = [rq EXCEPT !.trace = Append(@, rq.chain[rq.pos].name),
                        !.pc = "done",
                        !.status = h.writes[1].status,
                        !.msg = h.writes[1].msg,
                        !.writes = Len(h.writes),
                        !.service = h.service]
    /\ books' = h.tbl
    /\ UNCHANGED <<limiter, calls, ncalls, concurrent>>

RunPostBook ==
    /\ AtStage("PostBook")
    /\ \E fault \in BOOLEAN : Respond(PostBook(rq.ctx, rq.body, books, fault))

RunPutBook ==
    /\ AtStage("PutBook")
    /\ \E fault \in BOOLEAN : Respond(PutBook(rq.param, rq.body, books, fault))

RunDeleteBook ==
    /\ AtStage("DeleteBook")
    /\ \E fault \in BOOLEAN : Respond(DeleteBook(rq.param, books, fault))

\* (the table of the runs keeps the pages of a book within 0..MaxPages)
RunTransferPages ==
    /\ AtStage("TransferPages")
    /\ \E outcome \in {"ok", "error", "commit failed"} :
        LET h == TransferPages(rq.body, books, outcome)
        IN /\ \A b \in BookIds : h.tbl[b].pages \in 0..MaxPages
           /\ Respond(h)

----------------------------------------------------------------------------
(* The rate limiter: middleware.RateLimit over the visitors map *)

\* limitWindow = 1 * time.Minute, in seconds
limitWindow == 60

requestCap == 60

\* the largest Count an entry is driven to
MaxCount == 62

\* the time the clock is advanced to, in seconds
MaxTime == 61

\* the longest list of stages handed to applyMiddleware
MaxStages == 4

\* the goroutines net/http serves requests in: two requests in flight at most
Goroutines == {1, 2}

\* r.RemoteAddr of the client
Clients == {"10.0.0.1:4000"}

\* the clock advances by half a window, or by a second more than that
TimeSteps == {limitWindow \div 2, limitWindow \div 2 + 1}

\* a *rateLimitEntry: Nil, or the address of one of the entries
Nil == 0

Refs == 1..(Cardinality(Goroutines) + 1)

NoEntry == [live |-> FALSE, LastSeen |-> 0, Count |-> 0]

rateLimitEntry(lastSeen, count) == [live |-> TRUE, LastSeen |-> lastSeen, Count |-> count]

\* &rateLimitEntry{...}: the address the allocation returns
NewRef(ents) == CHOOSE x \in Refs : ~ents[x].live /\ \A y \in Refs : ~ents[y].live => x <= y

\* the entries still referred to by the map or by a goroutine; the rest is garbage
Collect(ents, vis, gss) ==
    [x \in Refs |->
        IF (\E c \in Clients : vis[c] = x) \/ (\E g \in Goroutines : gss[g].entry = x)
        THEN ents[x] ELSE NoEntry]

\* time.Since(t)
Since(t) == now - t

\* an access of a goroutine to the shared state, and whether it held mu then
Access(g, obj, op) == [obj |-> obj, op |-> op, locked |-> mu = g]

\* what the run has seen: when the window of each client started (the time
\* its entry was created), whether two requests were ever in flight at once,
\* whether recoveryMiddleware has recovered from a panic, how many of the
\* requests counted in each entry RateLimit has passed on to its next handler,
\* the pages each book started with and the pages the committed transfers
\* have moved into it since
NoHistory ==
    [ start      |-> [c \in Clients |-> 0],
      overlapped |-> FALSE,
      recovered  |-> FALSE,
      admitted   |-> [x \in Refs |-> 0],
      first      |-> [b \in BookIds |-> 0],
      moved      |-> [b \in BookIds |-> 0] ]

\* the history of an entry ends with the entry
Counted(h, ents) ==
    [h EXCEPT !.admitted = [x \in Refs |-> IF ents[x].live THEN @[x] ELSE 0]]

\* the place of a request in its window, from the Count it left in the entry
Rank(count) ==
    IF count = 1 THEN "first"
    ELSE IF count <= requestCap THEN "within"
    ELSE IF count = requestCap + 1 THEN "next"
    ELSE "beyond"

----------------------------------------------------------------------------
(* Composition: applyMiddleware / Apply of common.go, chi's Use / With *)

StRequestLogging == Stage("requestLoggingMiddleware", <<>>)

StRecovery == Stage("recoveryMiddleware", <<>>)

StCors == Stage("corsMiddleware", <<>>)

StUserAgentLog == Stage("userAgentLogMiddleware", <<>>)

StLogging == Stage("Logging", <<>>)

StRecoverer == Stage("Recoverer", <<>>)

StHSTS == Stage("HSTS", <<>>)

StRateLimit == Stage("RateLimit", <<>>)

\* a handler is the chain of stages it runs, outermost first, the terminal
\* handler last; middlewares[i](h) puts stage i in front of h
RECURSIVE WrapFrom(_, _, _)
WrapFrom(h, middlewares, i) ==
    IF i < 1 THEN h ELSE WrapFrom(<<middlewares[i]>> \o h, middlewares, i - 1)

\* a composer that wraps from the first stage of the list to the last
RECURSIVE WrapUpTo(_, _, _)
WrapUpTo(h, middlewares, i) ==
    IF i > Len(middlewares) THEN h ELSE WrapUpTo(<<middlewares[i]>> \o h, middlewares, i + 1)

applyMiddleware_Forward(h, middlewares) == WrapUpTo(h, middlewares, 1)

\* for i := len(middlewares) - 1; i >= 0; i-- { h = middlewares[i](h) }
applyMiddleware(h, middlewares) == WrapFrom(h, middlewares, Len(middlewares))

\* the default stages, in the order Apply lists them
DefaultMiddlewares == <<StRequestLogging, StRecovery, StCors, StUserAgentLog>>

\* a default composition with the recovery stage listed first
Apply_RecoveryFirst(h) ==
    applyMiddleware(h, <<StRecovery, StRequestLogging, StCors, StUserAgentLog>>)

Apply(h) == applyMiddleware(h, DefaultMiddlewares)

\* chi: r.Use(ms...) appends ms to the router's stack; the stack runs in the
\* order of the calls, in front of r.With(...) and of the route's handler
Use(stack, ms) == stack \o ms

\* a router that registers the rate limiter before every other stage
NewRouter_RateLimitFirst(route) ==
    Use(Use(Use(<<>>, <<StRateLimit>>), <<StLogging, StRecoverer>>), <<StHSTS>>)
        \o ChainOf(route, <<"admin">>)

\* NewRouter: r.Use(Logging, Recoverer); r.Use(HSTS); r.Use(RateLimit);
\* bookHandler.RegisterRoutes(r.With(JWTAuth)), for cfg.ServerPort # "6379"
NewRouter(route) ==
    Use(Use(Use(<<>>, <<StLogging, StRecoverer>>), <<StHSTS>>), <<StRateLimit>>)
        \o ChainOf(route, <<"admin">>)

ProtectedRoutes == {"GET /books", "POST /books/transfer"}

HasStage(chain, name) == \E i \in DOMAIN chain : chain[i].name = name

----------------------------------------------------------------------------
(* A request served by a goroutine through a composed chain *)

PanicValue == "runtime error: invalid memory address or nil pointer dereference"

In(name) == [e |-> "in", s |-> name]

Out(name) == [e |-> "out", s |-> name]

Unwound(name) == [e |-> "unwound", s |-> name]

IdleGoroutine ==
    [ pc        |-> "idle",
      ip        |-> "",
      method    |-> "",
      hdr       |-> Header("", NoToken),
      chain     |-> <<>>,
      fault     |-> 0,        \* the stage whose code panics, 0 = none
      pos       |-> 0,        \* the stage about to run, or being left
      ctx       |-> NoCtx,
      entry     |-> Nil,      \* RateLimit's local variable entry
      panicking |-> FALSE,
      recovered |-> FALSE,
      status    |-> 0,        \* status of the response written, 0 = none
      msg       |-> "",
      wroteAt   |-> 0,        \* the stage whose own code wrote the response
      trace     |-> <<>>,     \* stages entered and left, in order
      acc       |-> {},       \* RateLimit's accesses to the shared state
      rank      |-> "",       \* Rank of the Count the request left in its entry
      late      |-> FALSE,    \* it came after the client's window had run its length
      over      |-> FALSE ]   \* ... and the client had exceeded requestCap in it

\* a request: the handler it is routed to and what it carries
Request(chain, method, hdr, fault) ==
    [chain |-> chain, method |-> method, hdr |-> hdr, fault |-> fault]

NoHeader == Header("", NoToken)

\* the stages whose code may panic: RateLimit has no statement that can
FaultPoints(chain) == {0} \cup { i \in DOMAIN chain : chain[i].name # "RateLimit" }

\* w.WriteHeader: the first status written is the one sent
WriteHeader(r, status, msg) ==
    IF r.status # 0 THEN r ELSE [r EXCEPT !.status = status, !.msg = msg]

\* net/http starts a goroutine for the request and calls the handler
Serve(g, inputs) ==
    /\ gs[g].pc = "idle"
    /\ \A u \in Goroutines : u < g => gs[u].pc # "idle"
    /\ \E ip \in Clients, req \in inputs :
          gs' = [gs EXCEPT ![g] = [IdleGoroutine EXCEPT
                     !.pc = "enter", !.ip = ip, !.method = req.method, !.hdr = req.hdr,
                     !.chain = req.chain, !.fault = req.fault, !.pos = 1]]
    /\ hist' = [hist EXCEPT !.overlapped = @ \/ \E u \in Goroutines : gs[u].pc # "idle"]
    /\ UNCHANGED <<store, visitors, entries, mu, now>>

At(g, name) ==
    /\ gs[g].pc = "enter"
    /\ gs[g].chain[gs[g].pos].name = name

\* the code of the stage at pos runs up to its call of next, or to its return:
\* it panics, or decides d
Enter(r, d) ==
    LET entered == [r EXCEPT !.trace = Append(@, In(r.chain[r.pos].name))]
        wrote == IF d.status = 0 THEN entered
                 ELSE [WriteHeader(entered, d.status, d.msg) EXCEPT !.wroteAt = r.pos]
    IN IF r.fault = r.pos \/ d.panic THEN [entered EXCEPT !.pc = "leave", !.panicking = TRUE]
       ELSE IF d.next THEN [wrote EXCEPT !.pos = @ + 1, !.ctx = d.ctx]
       ELSE [wrote EXCEPT !.pc = "leave"]

\* a stage that does its work and calls next
PassThrough(g, name) ==
    /\ At(g, name)
    /\ gs' = [gs EXCEPT ![g] = Enter(@, CallNext(@.ctx, NoLookup))]
    /\ UNCHANGED <<store, visitors, entries, mu, now, hist>>

\* log "Started ..."; next(w, r)
requestLoggingMiddleware(g) == PassThrough(g, "requestLoggingMiddleware")

\* defer func() { recover() ... }(); next(w, r)
recoveryMiddleware(g) == PassThrough(g, "recoveryMiddleware")

\* a CORS stage that answers the preflight and goes on to next all the same
CorsDecision_NoReturn(method, ctx) ==
    IF method = "OPTIONS"
    THEN [next |-> TRUE, panic |-> FALSE, status |-> 204, msg |-> "", ctx |-> ctx,
          lookup |-> NoLookup]
    ELSE CallNext(ctx, NoLookup)

\* corsMiddleware: after the headers, 204 for OPTIONS, else next(w, r)
CorsDecision(method, ctx) ==
    IF method = "OPTIONS" THEN Answer(204, "", ctx, NoLookup) ELSE CallNext(ctx, NoLookup)

corsMiddleware(g) ==
    /\ At(g, "corsMiddleware")
    /\ gs' = [gs EXCEPT ![g] = Enter(@, CorsDecision(@.method, @.ctx))]
    /\ UNCHANGED <<store, visitors, entries, mu, now, hist>>

\* log the User-Agent; next(w, r)
userAgentLogMiddleware(g) == PassThrough(g, "userAgentLogMiddleware")

\* middleware.Logging: log the request; next.ServeHTTP(w, r)
Logging(g) == PassThrough(g, "Logging")

\* chi's middleware.Recoverer: defer recover; next.ServeHTTP(w, r)
Recoverer(g) == PassThrough(g, "Recoverer")

\* middleware.HSTS: set Strict-Transport-Security; next.ServeHTTP(w, r)
HSTS(g) == PassThrough(g, "HSTS")

\* a limiter that keeps mu until its handler returns (defer mu.Unlock())
Unlock_Deferred(holder) == holder

\* mu.Unlock(), lines 74 and 85: the holder gives mu up, mu is free
Unlock(holder) == 0

\* RateLimit, lines 63-65: ip := r.RemoteAddr; mu.Lock()
RateLimitLock(g) ==
    /\ At(g, "RateLimit")
    /\ mu = 0
    /\ mu' = g
    /\ gs' = [gs EXCEPT ![g] = [@ EXCEPT !.pc = "locked",
                                         !.trace = Append(@, In("RateLimit"))]]
    /\ UNCHANGED <<store, visitors, entries, now, hist>>

\* RateLimit, lines 67-85: the critical section, up to mu.Unlock()
RateLimitUpdate(g) ==
    /\ gs[g].pc = "locked"
    /\ LET r == gs[g]
           ref == visitors[r.ip]
           exists == ref # Nil
           late == exists /\ Since(hist.start[r.ip]) > limitWindow
           seen == [r EXCEPT !.late = late,
                             !.over = late /\ entries[ref].Count > requestCap]
       IN /\ IF ~exists \/ Since(entries[ref].LastSeen) > limitWindow
             THEN LET new == NewRef(entries)
                      vis == [visitors EXCEPT ![r.ip] = new]
                      gss == [gs EXCEPT ![g] = [seen EXCEPT
                                 !.pc = "enter", !.pos = @ + 1, !.rank = Rank(1),
                                 !.acc = @ \cup {Access(g, "visitors", "read"),
                                                 Access(g, "visitors", "write")}
                                           \cup (IF exists
                                                 THEN {Access(g, "LastSeen", "read")}
                                                 ELSE {})]]
                  IN /\ visitors' = vis
                     /\ gs' = gss
                     /\ entries' = Collect([entries EXCEPT ![new] = rateLimitEntry(now, 1)],
                                           vis, gss)
                     /\ hist' = Counted([hist EXCEPT !.start[r.ip] = now,
                                                     !.admitted[new] = 1], entries')
             ELSE LET gss == [gs EXCEPT ![g] = [seen EXCEPT
                                 !.pc = "unlocked", !.entry = ref,
                                 !.rank = Rank(entries[ref].Count + 1),
                                 !.acc = @ \cup {Access(g, "visitors", "read"),
                                                 Access(g, "LastSeen", "read"),
                                                 Access(g, "Count", "read"),
                                                 Access(g, "Count", "write"),
                                                 Access(g, "LastSeen", "write")}]]
                  IN /\ entries[ref].Count < MaxCount
                     /\ visitors' = visitors
                     /\ gs' = gss
                     /\ hist' = hist
                     /\ entries' = [entries EXCEPT ![ref] =
                                       rateLimitEntry(now, entries[ref].Count + 1)]
    /\ mu' = Unlock(g)
    /\ UNCHANGED <<store, now>>

\* a cap check that lets one request too many through
OverCap_OffByOne(count) == count > requestCap + 1

\* RateLimit, line 88: entry.Count > requestCap
OverCap(count) == count > requestCap

\* RateLimit, lines 88-94: if entry.Count > requestCap, mu no longer held.
\* The Count read is the one in memory at this step: every value another
\* goroutine's increment leaves there is read in some interleaving.
RateLimitCheck(g) ==
    /\ gs[g].pc = "unlocked"
    /\ LET r == gs[g]
           read == [r EXCEPT !.acc = @ \cup {Access(g, "Count", "read")}, !.entry = Nil]
           over == OverCap(entries[r.entry].Count)
           gss == [gs EXCEPT ![g] =
                     IF over
                     THEN [WriteHeader(read, 429, "Rate limit exceeded") EXCEPT
                              !.pc = "leave", !.wroteAt = r.pos]
                     ELSE [read EXCEPT !.pc = "enter", !.pos = @ + 1]]
       IN /\ gs' = gss
          /\ entries' = Collect(entries, visitors, gss)
          /\ hist' = Counted([hist EXCEPT !.admitted[r.entry] =
                                 IF over THEN @ ELSE @ + 1], entries')
    /\ UNCHANGED <<store, visitors, mu, now>>

\* middleware.JWTAuth(cfg.JWTSecret) in a composed chain
ServeJWTAuth(g) ==
    /\ At(g, "JWTAuth")
    /\ gs' = [gs EXCEPT ![g] = Enter(@, JWTAuth(@.hdr, @.ctx))]
    /\ UNCHANGED <<store, visitors, entries, mu, now, hist>>

\* middleware.AllowRoles(...) in a composed chain
ServeAllowRoles(g) ==
    /\ At(g, "AllowRoles")
    /\ gs' = [gs EXCEPT ![g] = Enter(@, AllowRoles(@.chain[@.pos].allowed, @.ctx))]
    /\ UNCHANGED <<store, visitors, entries, mu, now, hist>>

\* the terminal handler answers
ServeHandler(g) ==
    /\ At(g, "Handler")
    /\ gs' = [gs EXCEPT ![g] = Enter(@, Answer(200, "", @.ctx, NoLookup))]
    /\ UNCHANGED <<store, visitors, entries, mu, now, hist>>

\* a recovery stage that puts the panic value into its response
RecoveryMessage_Leak(name, value) ==
    IF name = "recoveryMiddleware" THEN value ELSE ""

\* recoveryMiddleware: utils.WriteSafeError(w, 500, "Internal Server Error");
\* chi's Recoverer: w.WriteHeader(500)
RecoveryMessage(name, value) ==
    IF name = "recoveryMiddleware" THEN "Internal Server Error" ELSE ""

Recovers(name) == name \in {"recoveryMiddleware", "Recoverer"}

\* the stage at pos is left: by its return, after what it does once next has
\* returned, or by the panic passing through it; a deferred recover() ends
\* the panic and answers 500
Return(g) ==
    /\ gs[g].pc = "leave"
    /\ LET r == gs[g]
           name == r.chain[r.pos].name
           left == IF r.panicking /\ Recovers(name)
                   THEN [WriteHeader(r, 500, RecoveryMessage(name, PanicValue)) EXCEPT
                            !.panicking = FALSE, !.recovered = TRUE,
                            !.trace = Append(@, Out(name))]
                   ELSE IF r.panicking THEN [r EXCEPT !.trace = Append(@, Unwound(name))]
                   ELSE [r EXCEPT !.trace = Append(@, Out(name))]
       IN /\ gs' = [gs EXCEPT ![g] = IF r.pos = 1 THEN [left EXCEPT !.pc = "done", !.pos = 0]
                                     ELSE [left EXCEPT !.pos = @ - 1]]
          /\ hist' = [hist EXCEPT !.recovered =
                        @ \/ (r.panicking /\ name = "recoveryMiddleware")]
    /\ UNCHANGED <<store, visitors, entries, mu, now>>

\* the handler has returned (or net/http has caught its panic and closed the
\* connection); the goroutine ends
Finish(g) ==
    /\ gs[g].pc = "done"
    /\ gs' = [gs EXCEPT ![g] = IdleGoroutine]
    /\ UNCHANGED <<store, visitors, entries, mu, now, hist>>

\* time passes
Tick ==
    /\ \E d \in TimeSteps : now + d <= MaxTime /\ now' = now + d
    /\ UNCHANGED <<store, visitors, entries, mu, gs, hist>>

----------------------------------------------------------------------------
(* Specifications *)

\* the state of the rate limiter and of the goroutines at process start
IdleLimiter ==
    /\ visitors = [c \in Clients |-> Nil]
    /\ entries = [x \in Refs |-> NoEntry]
    /\ mu = 0
    /\ now = 0
    /\ gs = [g \in Goroutines |-> IdleGoroutine]
    /\ hist = NoHistory

\* no table, transfer call or request of Spec takes part
IdleStore ==
    /\ books = [b \in BookIds |-> NoRow]
    /\ calls = [t \in Slots |-> IdleCall]
    /\ ncalls = 0
    /\ concurrent = FALSE
    /\ rq = IdleRq

\* tables of the transfer runs: every book absent or with 0..MaxPages pages
TransferTables == [BookIds -> {NoRow} \cup { Row(p, 1) : p \in 0..MaxPages }]

\* tables of the request runs: every book absent, or owned by a user or by nobody
OwnerTables == [BookIds -> {NoRow} \cup { Row(1, o) : o \in UserIds \cup {NullOwner} }]

InitTransfer ==
    /\ books \in TransferTables
    /\ calls = [t \in Slots |-> IdleCall]
    /\ ncalls = 0
    /\ concurrent = FALSE
    /\ rq = IdleRq
    /\ IdleLimiter

NextTransfer ==
    \E t \in Slots :
        \/ StartTransfer(t)
        \/ Begin(t)
        \/ Exec1(t)
        \/ Exec2(t)
        \/ Defer(t)
        \/ EndCall(t)

SpecTransfer == InitTransfer /\ [][NextTransfer]_vars

\* tables of the concurrent transfers: every book exists
ExistingTables == { [b \in BookIds |-> Row(1, 1)] }

\* transfers of one page from an existing book to another
ConcurrentRequests ==
    { req \in { TransferRequest(f, t, 1) : f \in BookIds, t \in BookIds } :
        req.FromID # req.ToID }

\* the clients issue their transfer calls concurrently: each call runs in the
\* goroutine of its request, on its own transaction of the shared database
InitConcurrent ==
    /\ books \in ExistingTables
    /\ calls = [t \in Slots |-> IdleCall]
    /\ ncalls = 0
    /\ concurrent = TRUE
    /\ rq = IdleRq
    /\ visitors = [c \in Clients |-> Nil]
    /\ entries = [x \in Refs |-> NoEntry]
    /\ mu = 0
    /\ now = 0
    /\ gs = [g \in Goroutines |-> IdleGoroutine]
    /\ hist = [NoHistory EXCEPT !.first = [b \in BookIds |-> books[b].pages]]

NextConcurrent ==
    \E t \in Slots :
        \/ StartTransferOf(t, {"service"}, ConcurrentRequests)
        \/ Begin(t)
        \/ Exec1(t)
        \/ Exec2(t)
        \/ Defer(t)
        \/ EndCall(t)

SpecConcurrent == InitConcurrent /\ [][NextConcurrent]_vars

Init ==
    /\ books \in OwnerTables
    /\ calls = [t \in Slots |-> IdleCall]
    /\ ncalls = 0
    /\ concurrent = FALSE
    /\ rq = IdleRq
    /\ IdleLimiter

Next ==
    \/ NewRequest
    \/ RunJWTAuth
    \/ RunAllowRoles
    \/ RunEnforceOwnership
    \/ RunAllowOwnerOrRole
    \/ RunHandler
    \/ EndRequest

Spec == Init /\ [][Next]_vars

\* tables of the book routes: every book absent, or owned by a user
BookTables == [BookIds -> {NoRow} \cup { Row(1, o) : o \in Users }]

InitBooks ==
    /\ books \in BookTables
    /\ calls = [t \in Slots |-> IdleCall]
    /\ ncalls = 0
    /\ concurrent = FALSE
    /\ rq = IdleRq
    /\ IdleLimiter

\* the requests for the book routes, served one at a time
NextBooks ==
    \/ NewBookRequest
    \/ RunJWTAuth
    \/ RunAllowRoles
    \/ RunEnforceOwnership
    \/ RunPostBook
    \/ RunPutBook
    \/ RunDeleteBook
    \/ RunTransferPages
    \/ EndRequest

SpecBooks == InitBooks /\ [][NextBooks]_vars

Methods == {"GET", "OPTIONS"}

\* RateLimit in front of a handler, which may panic
RateLimitInputs ==
    { Request(Use(<<>>, <<StRateLimit>>) \o <<StHandler>>, "GET", NoHeader, f) :
      f \in FaultPoints(Use(<<>>, <<StRateLimit>>) \o <<StHandler>>) }

InitRateLimit == IdleStore /\ IdleLimiter

NextRateLimit ==
    \/ \E g \in Goroutines :
        \/ Serve(g, RateLimitInputs)
        \/ RateLimitLock(g)
        \/ RateLimitUpdate(g)
        \/ RateLimitCheck(g)
        \/ ServeHandler(g)
        \/ Return(g)
        \/ Finish(g)
    \/ Tick

SpecRateLimit == InitRateLimit /\ [][NextRateLimit]_vars

\* the lists of stages of common.go a caller may hand to applyMiddleware
MiddlewareLists ==
    UNION { [1..k -> {StRequestLogging, StRecovery, StCors, StUserAgentLog}] :
            k \in 0..MaxStages }

\* requests to the handlers applyMiddleware and Apply return
ComposeInputs ==
    { req \in UNION { { Request(applyMiddleware(<<StHandler>>, ms), m, NoHeader, f) :
                        m \in Methods, f \in 0..(Len(ms) + 1) } :
                      ms \in MiddlewareLists } :
        HasStage(req.chain, "corsMiddleware") \/ req.method = "GET" }
    \cup { Request(Apply(<<StHandler>>), m, NoHeader, f) :
           m \in Methods, f \in FaultPoints(Apply(<<StHandler>>)) }

InitCompose == IdleStore /\ IdleLimiter

NextCompose ==
    \E g \in Goroutines :
        \/ (\A u \in Goroutines : gs[u].pc = "idle") /\ Serve(g, ComposeInputs)
        \/ requestLoggingMiddleware(g)
        \/ recoveryMiddleware(g)
        \/ corsMiddleware(g)
        \/ userAgentLogMiddleware(g)
        \/ ServeHandler(g)
        \/ Return(g)
        \/ Finish(g)

SpecCompose == InitCompose /\ [][NextCompose]_vars

\* the entry of the client when the run starts: that of a window under way
\* with requestCap - 1 or requestCap requests counted
StartCounts == {requestCap - 1, requestCap}

PipelineHeaders ==
    {NoHeader} \cup { Header("Bearer", GenerateToken(1, role, Secret, FALSE)) :
                      role \in {"user", "admin"} }

RouteMethod(route) == IF route = "GET /books" THEN "GET" ELSE "POST"

\* requests to Apply(h), and to the protected routes of NewRouter
PipelineInputs ==
    { Request(Apply(<<StHandler>>), m, NoHeader, f) :
      m \in Methods, f \in FaultPoints(Apply(<<StHandler>>)) }
    \cup UNION { { Request(NewRouter(route), RouteMethod(route), h, f) :
                   h \in PipelineHeaders, f \in {0, Len(NewRouter(route))} } :
                 route \in ProtectedRoutes }

InitPipeline ==
    /\ IdleStore
    /\ \E c \in StartCounts :
        /\ visitors = [ip \in Clients |-> 1]
        /\ entries = [x \in Refs |-> IF x = 1 THEN rateLimitEntry(0, c) ELSE NoEntry]
        /\ hist = [NoHistory EXCEPT !.admitted[1] = c]
    /\ mu = 0
    /\ now = 0
    /\ gs = [g \in Goroutines |-> IdleGoroutine]

NextPipeline ==
    \E g \in Goroutines :
        \/ Serve(g, PipelineInputs)
        \/ requestLoggingMiddleware(g)
        \/ recoveryMiddleware(g)
        \/ corsMiddleware(g)
        \/ userAgentLogMiddleware(g)
        \/ Logging(g)
        \/ Recoverer(g)
        \/ HSTS(g)
        \/ RateLimitLock(g)
        \/ RateLimitUpdate(g)
        \/ RateLimitCheck(g)
        \/ ServeJWTAuth(g)
        \/ ServeAllowRoles(g)
        \/ ServeHandler(g)
        \/ Return(g)
        \/ Finish(g)

SpecPipeline == InitPipeline /\ [][NextPipeline]_vars

----------------------------------------------------------------------------
(* Properties of TransferPages, under SpecTransfer *)

\* the call reached the repository method
ReachedRepo(c) == c.tx # "none" \/ c.failedAt = "begin"

\* C1: when an UPDATE of TransferPages fails (the source-side or the
\* destination-side one), the call returns an error and, once it has returned,
\* every book is as it was before the call: the source decrement is rolled back.
C1_TransferAtomicity ==
    \A t \in Slots :
        (calls[t].pc = "returned" /\ calls[t].failedAt \in {"exec1", "exec2"}
            /\ ~calls[t].panicking)
        => /\ calls[t].ret # ""
           /\ books = calls[t].pre
           /\ calls[t].entry = "handler" => calls[t].status = 500

\* the destination UPDATE failed after the source UPDATE had taken pages off an
\* existing book, and the call has returned
C1_Witness ==
    \E t \in Slots :
        /\ calls[t].pc = "returned"
        /\ calls[t].failedAt = "exec2"
        /\ ~calls[t].panicking
        /\ calls[t].execs = 1
        /\ calls[t].req.Pages > 0
        /\ calls[t].pre[calls[t].req.FromID].exists

\* C2 (as claimed): a validated transfer that returns success leaves the sum of
\* the pages stored under the source id and under the destination id unchanged,
\* whether or not both ids name existing books; a self-transfer changes nothing.
C2_QuantityConservation ==
    \A t \in Slots :
        LET c == calls[t] IN
        (c.pc = "returned" /\ ReachedRepo(c) /\ c.ret = "")
        => /\ PagesAt(books, c.req.FromID) + PagesAt(books, c.req.ToID)
                = PagesAt(c.pre, c.req.FromID) + PagesAt(c.pre, c.req.ToID)
           /\ c.req.FromID = c.req.ToID => books = c.pre

\* C3 (as claimed): whenever a storage step of a transfer fails (Begin, either
\* UPDATE, or Commit) the caller gets a non-nil error; success is returned only
\* if the transaction was committed.
C3_FailureSurfaces ==
    \A t \in Slots :
        LET c == calls[t] IN
        (c.pc = "returned" /\ ReachedRepo(c))
        => /\ c.failedAt # "" => c.ret # ""
           /\ c.ret = "" => c.tx = "committed"
           /\ (c.entry = "handler" /\ c.status = 200) => c.tx = "committed"

\* C4: a call that began a transaction resolves it exactly once before control
\* leaves it: one Commit and no Rollback after both UPDATEs succeeded, one
\* Rollback and no Commit after an UPDATE error or a panic; while the call is
\* still running neither has happened, and afterwards the transaction is closed.
C4_ResolvedExactlyOnce ==
    \A t \in Slots :
        LET c == calls[t] IN
        /\ c.pc \in {"exec1", "exec2", "defer"}
              => c.tx = "open" /\ c.ncommit = 0 /\ c.nrollback = 0
        /\ (Finished(c) /\ c.tx # "none")
              => /\ c.tx # "open"
                 /\ (c.execs = 2 /\ c.failedAt \notin {"exec1", "exec2"})
                       => c.ncommit = 1 /\ c.nrollback = 0
                 /\ c.failedAt \in {"exec1", "exec2"}
                       => c.nrollback = 1 /\ c.ncommit = 0
        /\ c.tx = "none" => c.ncommit = 0 /\ c.nrollback = 0

\* a call whose second UPDATE panicked has rolled back once and is panicking on
C4_Witness ==
    \E t \in Slots :
        /\ calls[t].pc = "panicked"
        /\ calls[t].failedAt = "exec2"
        /\ calls[t].tx = "rolledback"
        /\ calls[t].nrollback = 1

----------------------------------------------------------------------------
(* Properties of the middleware chain, under Spec *)

\* stage i of the chain is the stage `name` and has run
Entered(i, name) ==
    /\ rq.pc # "idle"
    /\ i \in DOMAIN rq.chain
    /\ rq.chain[i].name = name
    /\ Len(rq.trace) >= i

\* stage i called its next handler
CalledNext(i) == rq.pos > i

\* stage i answered the request itself with status and message
AnsweredBy(i, status, msg) ==
    /\ rq.pc = "done"
    /\ rq.pos = i
    /\ Len(rq.trace) = i
    /\ ~rq.panicked
    /\ rq.status = status
    /\ rq.msg = msg

\* how often the stage or handler `name` has run for the request
TimesRun(name) == Cardinality({ i \in DOMAIN rq.trace : rq.trace[i] = name })

\* the role under UserRoleKey as AllowRoles and AllowOwnerOrRole read it
ContextRole == IF rq.ctx.hasRole THEN rq.ctx.userRole ELSE ""

IsMember(role, allowed) == \E k \in DOMAIN allowed : allowed[k] = role

\* the header is missing or of another scheme, the token is no JWT, is signed
\* with another key or has expired, or it lacks user_id or user_role
LacksValidToken(hdr) ==
    \/ hdr.scheme # "Bearer"
    \/ hdr.tok.kind # "jwt"
    \/ hdr.tok.key # Secret
    \/ hdr.tok.expired
    \/ hdr.tok.user_id.t = "absent"
    \/ hdr.tok.user_role.t = "absent"

\* C5: a request without a valid token (header missing or not Bearer, token
\* failing verification, user_id or user_role missing) is answered 401 by
\* JWTAuth, and no role check, ownership check, owner lookup or handler runs.
C5_AuthShortCircuit ==
    (rq.pc # "idle" /\ LacksValidToken(rq.hdr))
    => /\ rq.pos = 1
       /\ rq.lookups = 0
       /\ \A i \in DOMAIN rq.trace : rq.trace[i] = "JWTAuth"
       /\ rq.pc = "done" => (rq.status = 401 /\ ~rq.panicked /\ rq.trace = <<"JWTAuth">>)

\* an expired token of the server's own key was answered on a route that has an
\* authorization stage behind JWTAuth
C5_Witness ==
    /\ rq.pc = "done"
    /\ rq.hdr.scheme = "Bearer"
    /\ rq.hdr.tok = GenerateToken(1, "admin", Secret, TRUE)
    /\ Len(rq.chain) > 2
    /\ rq.status = 401

\* C6: for a token issued by GenerateToken(id, role) under the server's key and
\* not expired, JWTAuth calls the next handler exactly once and the identity in
\* the request context is exactly (id, role), whatever the role is.
C6_IdentityInjected ==
    \A id \in TokenUserIds, role \in Roles :
        (rq.pc # "idle" /\ rq.hdr = Header("Bearer", GenerateToken(id, role, Secret, FALSE)))
        => /\ Len(rq.trace) >= 1
              => /\ CalledNext(1)
                 /\ rq.ctx = [hasID |-> TRUE, userID |-> id,
                              hasRole |-> TRUE, userRole |-> role]
           /\ rq.pc = "done"
              => /\ TimesRun("JWTAuth") = 1
                 /\ Len(rq.trace) >= 2
                 /\ TimesRun(rq.chain[2].name) = 1

\* a request of the user with the large id and the empty role reached the handler
C6_Witness ==
    /\ rq.pc = "done"
    /\ rq.hdr = Header("Bearer", GenerateToken(BigUserId, "", Secret, FALSE))
    /\ rq.trace = <<"JWTAuth", "Handler">>
    /\ rq.ctx.userID = BigUserId

\* C7 (as claimed): a validly signed token whose user_id is not a number or whose
\* user_role is not a string is answered 401 by JWTAuth, without the next handler
\* and without a panic.
C7_MalformedClaimRejected ==
    (/\ rq.pc = "done"
     /\ ~LacksValidToken(rq.hdr)
     /\ rq.hdr.tok.user_id.t # "num" \/ rq.hdr.tok.user_role.t # "str")
    => /\ ~rq.panicked
       /\ rq.status = 401
       /\ rq.trace = <<"JWTAuth">>

\* C8 (as claimed): AllowRoles passes a request on iff its context role is in the
\* allow-list, and answers every other request 403 "Forbidden: insufficient role"
\* without calling the next handler.
C8_RolePolicyAsClaimed ==
    \A i \in DOMAIN rq.chain :
        Entered(i, "AllowRoles")
        => IF IsMember(ContextRole, rq.chain[i].allowed)
           THEN CalledNext(i)
           ELSE AnsweredBy(i, 403, "Forbidden: insufficient role")

\* C8 (amended): for a non-empty context role AllowRoles passes the request on
\* iff the role occurs in the allow-list, whatever its length, order or
\* duplicates, and else answers 403 "Forbidden: insufficient role"; a missing or
\* empty role is answered 403 "Forbidden: no role provided", whatever the list.
\* The next handler is not called for a request that is answered.
C8_RolePolicy ==
    \A i \in DOMAIN rq.chain :
        Entered(i, "AllowRoles")
        => IF ContextRole = ""
           THEN AnsweredBy(i, 403, "Forbidden: no role provided")
           ELSE IF IsMember(ContextRole, rq.chain[i].allowed)
           THEN CalledNext(i)
           ELSE AnsweredBy(i, 403, "Forbidden: insufficient role")

\* an admin passed AllowRoles("user", "admin") and reached the handler
C8_Witness ==
    /\ rq.pc = "done"
    /\ rq.ctx.userRole = "admin"
    /\ \E i \in DOMAIN rq.chain :
          /\ Entered(i, "AllowRoles")
          /\ rq.chain[i].allowed = <<"user", "admin">>
    /\ rq.trace[Len(rq.trace)] = "Handler"

\* C9: EnforceOwnership calls the next handler iff the owner lookup for the id of
\* the route succeeded and returned the subject's id; then the book exists and is
\* owned by the subject. Another owner is answered 403 "Forbidden: not owner", a
\* failed lookup (book absent, storage error) 500 "Could not verify ownership",
\* both without the next handler.
C9_OwnershipPolicy ==
    \A i \in DOMAIN rq.chain :
        Entered(i, "EnforceOwnership")
        => LET id == Atoi(rq.param).n
               found == rq.lookup.done /\ rq.lookup.err = ""
           IN /\ CalledNext(i) <=> (found /\ rq.ctx.hasID /\ rq.ctx.userID = rq.lookup.owner)
              /\ CalledNext(i)
                    => id \in BookIds /\ books[id].exists /\ books[id].owner = rq.ctx.userID
              /\ (found /\ rq.ctx.userID # rq.lookup.owner)
                    => AnsweredBy(i, 403, "Forbidden: not owner")
              /\ (rq.lookup.done /\ rq.lookup.err # "")
                    => AnsweredBy(i, 500, "Could not verify ownership")
              /\ (~Atoi(rq.param).err /\ ~(id \in BookIds /\ books[id].exists))
                    => AnsweredBy(i, 500, "Could not verify ownership")

\* subject 1 asked for a book of subject 2 and was answered "not owner"
C9_Witness ==
    /\ rq.pc = "done"
    /\ \E i \in DOMAIN rq.chain : Entered(i, "EnforceOwnership")
    /\ rq.ctx.userID = 1
    /\ rq.lookup.done /\ rq.lookup.err = "" /\ rq.lookup.owner = 2
    /\ rq.status = 403
    /\ rq.msg = "Forbidden: not owner"

\* C10 (as claimed): AllowOwnerOrRole calls the next handler iff the role is in
\* the allow-list or the owner lookup succeeded and returned the subject's id; in
\* every other case, a failed lookup included, the request is rejected.
C10_CombinedPolicy ==
    \A i \in DOMAIN rq.chain :
        Entered(i, "AllowOwnerOrRole")
        => LET found == rq.lookup.done /\ rq.lookup.err = ""
               admit == \/ IsMember(ContextRole, rq.chain[i].allowed)
                        \/ (found /\ rq.ctx.userID = rq.lookup.owner)
           IN /\ CalledNext(i) <=> admit
              /\ ~admit => (rq.pc = "done" /\ rq.pos = i /\ rq.status = 403)

----------------------------------------------------------------------------
(* Properties of the rate limiter, under SpecRateLimit *)

\* the request of r reached the stage or handler `name`
Reached(r, name) == \E k \in DOMAIN r.trace : r.trace[k] = In(name)

\* the rate limiter passed the request of r on to the next handler
Admitted(r) == Reached(r, "Handler") /\ r.status # 429

\* the rate limiter answered the request of r itself
Rejected(r) == r.status = 429 /\ r.msg = "Rate limit exceeded" /\ ~Reached(r, "Handler")

\* C11 (as claimed): a client sends its requests one after the other. Within
\* one window (60 s from the window's first request) its first requestCap
\* requests are admitted and the next one is answered 429 without reaching the
\* next handler; a request that comes after the window has run out is admitted
\* and leaves the count at 1.
C11_WindowProperty ==
    \A g \in Goroutines :
        (gs[g].pc = "done" /\ ~hist.overlapped)
        => LET r == gs[g]
           IN /\ (~r.late /\ r.rank \in {"first", "within"}) => Admitted(r)
              /\ (~r.late /\ r.rank = "next") => Rejected(r)
              /\ r.late => (Admitted(r) /\ r.rank = "first")

\* C12 (as claimed): every read and write RateLimit makes of the visitors map
\* and of an entry's Count and LastSeen happens while its goroutine holds mu.
C12_LockDiscipline ==
    \A g \in Goroutines : \A a \in gs[g].acc : a.locked

\* C13 (as claimed): once the window in which a client exceeded requestCap has
\* run its 60 s from its start, the client's next request is admitted, whatever
\* it sent during that window.
C13_NoPenaltyBeyondWindow ==
    \A g \in Goroutines :
        (gs[g].pc = "done" /\ gs[g].late /\ gs[g].over) => Admitted(gs[g])

----------------------------------------------------------------------------
(* Properties of the composed chains, under SpecCompose and SpecPipeline *)

\* number of stages the request of r has entered
NumIn(r) == Cardinality({ k \in DOMAIN r.trace : r.trace[k].e = "in" })

\* the code of the stage r.fault was reached, and panicked
Panicked(r) == r.fault > 0 /\ NumIn(r) >= r.fault

\* C14: a panic in a stage or handler downstream of recoveryMiddleware stops
\* at recoveryMiddleware: the stages in front of it return normally, the
\* response is 500 with the message "Internal Server Error" and nothing of the
\* panic value; and mu is held by no goroutine outside RateLimit's critical
\* section, so that requests served afterwards are not blocked.
C14_PanicIsolation ==
    /\ \A g \in Goroutines :
          LET r == gs[g]
          IN (/\ r.pc = "done"
              /\ Panicked(r)
              /\ \E i \in DOMAIN r.chain :
                    r.chain[i].name = "recoveryMiddleware" /\ i < r.fault)
             => /\ ~r.panicking
                /\ r.recovered
                /\ r.status = 500
                /\ r.msg = "Internal Server Error"
                /\ r.msg # PanicValue
                /\ \A k \in DOMAIN r.trace :
                      r.trace[k].e = "unwound" => r.trace[k].s # "requestLoggingMiddleware"
    /\ mu # 0 => gs[mu].pc = "locked"

\* recoveryMiddleware has recovered from a panic, and a request that came
\* later, alone, was served by the handler with 200
C14_Witness ==
    /\ hist.recovered
    /\ ~hist.overlapped
    /\ \E g \in Goroutines :
          /\ gs[g].pc = "done"
          /\ gs[g].fault = 0
          /\ gs[g].status = 200
          /\ Reached(gs[g], "Handler")

\* the names of the stages of a list
Names(ms) == [i \in DOMAIN ms |-> ms[i].name]

\* the stages `names` entered in this order and left in the reverse order
Nested(names) ==
    [k \in 1..(2 * Len(names)) |->
        IF k <= Len(names) THEN In(names[k]) ELSE Out(names[2 * Len(names) - k + 1])]

DefaultOrder ==
    <<"requestLoggingMiddleware", "recoveryMiddleware", "corsMiddleware",
      "userAgentLogMiddleware", "Handler">>

\* C15: a request other than OPTIONS to a handler wrapped by Apply enters
\* request logging, recovery, CORS, user-agent logging and the handler in this
\* order and leaves them in the reverse order; when CORS, user-agent logging or
\* the handler panics, the stages up to it were entered in this order, recovery
\* ends the panic and request logging still completes, last of all.
C15_DefaultComposition ==
    \A g \in Goroutines :
        LET r == gs[g]
        IN (r.pc = "done" /\ r.chain = Apply(<<StHandler>>) /\ r.method # "OPTIONS")
           => /\ r.fault = 0 => r.trace = Nested(DefaultOrder)
              /\ r.fault >= 3
                 => /\ SubSeq(r.trace, 1, r.fault) = [k \in 1..r.fault |-> In(DefaultOrder[k])]
                    /\ Len(r.trace) = 2 * r.fault
                    /\ \A k \in (r.fault + 1)..(2 * r.fault - 2) :
                          r.trace[k] = Unwound(DefaultOrder[2 * r.fault - k + 1])
                    /\ r.trace[2 * r.fault - 1] = Out("recoveryMiddleware")
                    /\ r.trace[2 * r.fault] = Out("requestLoggingMiddleware")
                    /\ ~r.panicking

\* a GET through Apply(h) whose handler panicked: recovery answered 500 and
\* request logging completed
C15_Witness ==
    \E g \in Goroutines :
        /\ gs[g].pc = "done"
        /\ gs[g].chain = Apply(<<StHandler>>)
        /\ gs[g].method = "GET"
        /\ gs[g].fault = 5
        /\ gs[g].status = 500
        /\ gs[g].trace[Len(gs[g].trace)] = Out("requestLoggingMiddleware")

\* every stage of the chain of r invoked its successor
InvokesAll(r) ==
    /\ r.fault = 0
    /\ ~(r.method = "OPTIONS" /\ HasStage(r.chain, "corsMiddleware"))

\* C16: the handler applyMiddleware(h, m1, ..., mn) returns enters m1, ..., mn
\* and then h, and leaves them in the reverse order, whenever every stage invokes
\* its successor; for the empty list it is h itself.
C16_CallerComposition ==
    /\ applyMiddleware(<<StHandler>>, <<>>) = <<StHandler>>
    /\ \A g \in Goroutines :
          LET r == gs[g]
          IN (r.pc = "done" /\ InvokesAll(r))
             => \A ms \in MiddlewareLists :
                   r.chain = applyMiddleware(<<StHandler>>, ms)
                   => r.trace = Nested(Names(ms) \o <<"Handler">>)

\* a request went through applyMiddleware(h, userAgentLog, recovery, requestLogging)
\* and back
C16_Witness ==
    \E g \in Goroutines :
        /\ gs[g].pc = "done"
        /\ gs[g].chain =
              applyMiddleware(<<StHandler>>, <<StUserAgentLog, StRecovery, StRequestLogging>>)
        /\ gs[g].fault = 0
        /\ Len(gs[g].trace) = 8
        /\ gs[g].trace[1] = In("userAgentLogMiddleware")
        /\ gs[g].trace[8] = Out("userAgentLogMiddleware")

\* C17: once the code of a stage in front of the terminal handler has written
\* the response itself (corsMiddleware 204, RateLimit 429, JWTAuth 401,
\* AllowRoles 403), no stage behind it and no handler runs for that request,
\* whatever the other request in flight does.
C17_ShortCircuit ==
    \A g \in Goroutines :
        LET r == gs[g]
        IN (r.wroteAt > 0 /\ r.wroteAt < Len(r.chain))
           => /\ NumIn(r) = r.wroteAt
              /\ ~Reached(r, "Handler")
              /\ r.pc \in {"leave", "done"}

\* RateLimit answered one request 429 while the other request in flight, admitted
\* before it, was in the handler
C17_Witness ==
    \E g \in Goroutines, u \in Goroutines :
        /\ g # u
        /\ gs[g].pc = "done"
        /\ gs[g].status = 429
        /\ gs[g].chain[gs[g].wroteAt].name = "RateLimit"
        /\ gs[u].pc = "leave"
        /\ gs[u].status = 200
        /\ gs[u].chain[gs[u].pos].name = "Handler"

\* `a` was entered before `b`
Before(r, a, b) ==
    \E i \in DOMAIN r.trace, j \in DOMAIN r.trace :
        i < j /\ r.trace[i] = In(a) /\ r.trace[j] = In(b)

\* C18 (as claimed): a request to a protected route that reaches the handler
\* ran the rate limiter, logging and panic recovery before the security-header
\* stage, that one before JWTAuth, JWTAuth before the route's authorization
\* stage and the handler.
C18_PipelineOrderAsClaimed ==
    \A g \in Goroutines :
        LET r == gs[g]
        IN (HasStage(r.chain, "JWTAuth") /\ Reached(r, "Handler"))
           => /\ Before(r, "RateLimit", "HSTS")
              /\ Before(r, "Logging", "HSTS")
              /\ Before(r, "Recoverer", "HSTS")
              /\ Before(r, "HSTS", "JWTAuth")
              /\ Before(r, "RateLimit", "JWTAuth")
              /\ HasStage(r.chain, "AllowRoles") => Before(r, "JWTAuth", "AllowRoles")
              /\ Before(r, "JWTAuth", "Handler")

\* the order NewRouter gives the stages of a protected route
RouterOrder(chain) ==
    IF HasStage(chain, "AllowRoles")
    THEN <<"Logging", "Recoverer", "HSTS", "RateLimit", "JWTAuth", "AllowRoles", "Handler">>
    ELSE <<"Logging", "Recoverer", "HSTS", "RateLimit", "JWTAuth", "Handler">>

\* C18 (amended): a request to a protected route runs Logging, Recoverer, HSTS,
\* RateLimit, JWTAuth, the route's authorization stage and the handler in this
\* order, as far as it gets: the rate limiter runs after the security-header
\* stage and before authentication.
C18_PipelineOrder ==
    \A g \in Goroutines :
        LET r == gs[g]
        IN HasStage(r.chain, "JWTAuth")
           => /\ NumIn(r) <= Len(RouterOrder(r.chain))
              /\ \A k \in 1..NumIn(r) : r.trace[k] = In(RouterOrder(r.chain)[k])

\* an admin's POST /books/transfer went through all seven stages
C18_Witness ==
    \E g \in Goroutines :
        /\ gs[g].pc = "done"
        /\ HasStage(gs[g].chain, "AllowRoles")
        /\ gs[g].status = 200
        /\ NumIn(gs[g]) = 7
        /\ gs[g].trace[4] = In("RateLimit")
        /\ gs[g].trace[7] = In("Handler")

----------------------------------------------------------------------------
(* Properties of the tokens and of AllowOwnerOrRole, under Spec *)

\* C19: a token GenerateToken(id, role, key) has just issued is parsed with the
\* same key without error into claims with exactly that user_id and user_role,
\* and parsed with any other key it yields an error.
C19_TokenRoundTrip ==
    \A id \in TokenUserIds, role \in Roles, key \in Keys :
        (rq.pc # "idle" /\ rq.hdr.tok = GenerateToken(id, role, key, FALSE))
        => /\ ParseToken(rq.hdr.tok, key) =
                 [ok |-> TRUE, user_id |-> Num(id), user_role |-> Str(role)]
           /\ \A other \in Keys \ {key} : ~ParseToken(rq.hdr.tok, other).ok
           /\ (rq.hdr.scheme = "Bearer" /\ rq.pc = "done" /\ key # Secret)
              => (rq.status = 401 /\ rq.msg = "Invalid or expired token.")

\* a token issued under another key than the server's was presented and refused
C19_Witness ==
    /\ rq.pc = "done"
    /\ rq.hdr = Header("Bearer", GenerateToken(1, "admin", "k2", FALSE))
    /\ ParseToken(GenerateToken(1, "admin", "k2", FALSE), "k2").ok
    /\ rq.status = 401
    /\ rq.trace = <<"JWTAuth">>

\* C20 (as claimed): AllowOwnerOrRole checks the role first and calls the owner
\* lookup only when the role is not in the allow-list.
C20_RoleCheckedFirst ==
    \A i \in DOMAIN rq.chain :
        (Entered(i, "AllowOwnerOrRole") /\ IsMember(ContextRole, rq.chain[i].allowed))
        => (rq.lookups = 0 /\ ~rq.lookup.done)

----------------------------------------------------------------------------
(* Bursts, the lock and the cap of the rate limiter, under SpecRateLimit *)

\* C21 (as claimed): a client bursting at the boundary of two windows gets more
\* than requestCap requests admitted within less than one window length. The
\* execution the claim describes needs this step: a client whose entry stands
\* at requestCap, all admitted, sends a request less than 60 s after its last
\* one and more than 60 s after the window's start; the request opens the next
\* window (count 1) and goes on to the next handler.
C21_BoundaryBurst ==
    [][\A g \in Goroutines :
          LET ref == visitors[gs[g].ip]
          IN (/\ gs[g].pc = "locked"
              /\ gs'[g].pc # "locked"
              /\ ref # Nil
              /\ entries[ref].Count = requestCap
              /\ Since(entries[ref].LastSeen) < limitWindow
              /\ Since(hist.start[gs[g].ip]) > limitWindow)
             => (gs'[g].pc = "enter" /\ gs'[g].rank = "first")]_vars

\* the request of g is in RateLimit's critical section, between Lock and Unlock
InCriticalSection(g) == gs[g].pc = "locked"

\* the handler behind RateLimit is running for the request of g: it has been
\* called and has not returned, or it is panicking
Downstream(g) ==
    /\ gs[g].pc \in {"enter", "leave"}
    /\ gs[g].chain[gs[g].pos].name = "Handler"

\* C26: RateLimit never holds mu while the next handler runs or the 429 is
\* written. A request holds mu only inside the critical section; on each of
\* the three paths out of it (new or expired entry, increment admitted,
\* increment rejected) the step that leaves it is the one unlock, mu goes from
\* held by the request to free, and the request never holds mu again. So a
\* request that waits for mu waits for a request inside the critical section,
\* never for one whose handler runs, blocks or panics.
C26_UnlockedBeforeNext ==
    [][\A g \in Goroutines :
          /\ mu' = g => (InCriticalSection(g))'
          /\ (InCriticalSection(g) /\ ~(InCriticalSection(g))')
             => (mu = g /\ mu' = 0 /\ gs'[g].pc \in {"enter", "unlocked"})
          /\ (mu = g /\ mu' # g) => InCriticalSection(g)
          /\ (Downstream(g) \/ gs[g].status = 429)'
             => (mu' # g /\ (mu' # 0 => gs'[mu'].pc = "locked"))]_vars

\* while the handler of one request is panicking and has not been left,
\* another request of the client has taken mu and is in the critical section
C26_Witness ==
    \E g, u \in Goroutines :
        /\ g # u
        /\ Downstream(g) /\ gs[g].panicking
        /\ InCriticalSection(u) /\ mu = u
        /\ gs[u].fault = 0

\* C27: whatever the interleaving of a client's concurrent requests, at most
\* requestCap of the requests counted in one entry, that is between the reset
\* that created it and the next, are passed on to the next handler.
C27_CapUpperBound ==
    \A x \in Refs : entries[x].live => hist.admitted[x] <= requestCap

\* requests of the client have overlapped, its entry has counted more than
\* requestCap of them and requestCap have been admitted
C27_Witness ==
    \E c \in Clients :
        /\ hist.overlapped
        /\ visitors[c] # Nil
        /\ entries[visitors[c]].Count > requestCap
        /\ hist.admitted[visitors[c]] = requestCap

\* C28 (as claimed): under any interleaving of a client's concurrent requests,
\* a request whose own increment left the entry's count at requestCap or less
\* is admitted, whatever other requests add to the count after it has released
\* mu: the first requestCap requests of a window are always admitted.
C28_OwnCountDecides ==
    \A g \in Goroutines :
        (gs[g].pc = "done" /\ gs[g].rank \in {"first", "within"}) => Admitted(gs[g])

----------------------------------------------------------------------------
(* Properties of transfers, under SpecTransfer and SpecConcurrent *)

\* the transfer of call c was turned down, with an error or a 400, before any
\* storage call was made
RejectedBeforeStorage(c) ==
    /\ ~ReachedRepo(c)
    /\ c.execs = 0
    /\ c.ret # "" \/ c.status = 400

\* C23 (as claimed): a transfer request is rejected before any storage call if
\* and only if its source id <= 0, its destination id <= 0 or its quantity < 0;
\* with positive ids and a quantity >= 0, quantity 0 included, it passes
\* validation and is executed.
C23_TransferPreconditions ==
    \A t \in Slots :
        LET c == calls[t] IN
        c.pc = "returned"
        => /\ RejectedBeforeStorage(c)
                <=> (c.req.FromID <= 0 \/ c.req.ToID <= 0 \/ c.req.Pages < 0)
           /\ (c.req.FromID > 0 /\ c.req.ToID > 0 /\ c.req.Pages >= 0) => ReachedRepo(c)

\* call c went through the repository without a storage failure, moving more
\* pages than its source book had when the call started, to a book there is
Overdraws(c) ==
    /\ c.pc = "returned"
    /\ ReachedRepo(c)
    /\ c.failedAt = ""
    /\ validateTransferRequest(c.req) = ""
    /\ c.req.FromID \in BookIds /\ c.pre[c.req.FromID].exists
    /\ c.req.ToID \in BookIds /\ c.pre[c.req.ToID].exists
    /\ c.req.Pages > c.pre[c.req.FromID].pages

\* C24 (as claimed): a valid transfer of more pages than the source book has is
\* not rejected by TransferPages; it commits, the source is left with (pages
\* before - quantity), a negative value, and the destination has gained the
\* full quantity.
C24_NoFloorAsClaimed ==
    \A t \in Slots :
        LET c == calls[t] IN
        Overdraws(c)
        => /\ c.tx = "committed" /\ c.ret = ""
           /\ books[c.req.FromID].pages = c.pre[c.req.FromID].pages - c.req.Pages
           /\ books[c.req.FromID].pages < 0
           /\ books[c.req.ToID].pages = c.pre[c.req.ToID].pages + c.req.Pages

\* C24 (amended): a valid transfer from a book to another book, of more pages
\* than the source has, is not rejected by TransferPages; it commits, the
\* source is left with (pages before - quantity), a negative value, and the
\* destination has gained the full quantity.
C24_NoFloor ==
    \A t \in Slots :
        LET c == calls[t] IN
        (Overdraws(c) /\ c.req.FromID # c.req.ToID)
        => /\ c.tx = "committed" /\ c.ret = ""
           /\ books[c.req.FromID].pages = c.pre[c.req.FromID].pages - c.req.Pages
           /\ books[c.req.FromID].pages < 0
           /\ books[c.req.ToID].pages = c.pre[c.req.ToID].pages + c.req.Pages

\* two pages were moved from a book of one page to another book: the source
\* is left with -1 pages, the destination has two more
C24_Witness ==
    \E t \in Slots :
        LET c == calls[t] IN
        /\ Overdraws(c)
        /\ c.req = TransferRequest(1, 2, 2)
        /\ c.pre[1].pages = 1 /\ c.pre[2].exists
        /\ books[1].pages = -1
        /\ books[2].pages = c.pre[2].pages + 2

\* the pages of the books in S, by the account f
RECURSIVE TotalPages(_, _)
TotalPages(f, S) ==
    IF S = {} THEN 0
    ELSE LET b == CHOOSE x \in S : TRUE IN f[b] + TotalPages(f, S \ {b})

\* C29: whatever the interleaving of concurrent TransferPages calls between
\* existing books, each committing or rolling back, the committed pages of all
\* books sum to what they summed to at the start, and every book has its
\* initial pages plus the quantities of the committed transfers into it minus
\* those of the committed transfers out of it: no committed update is lost.
C29_ConcurrentConservation ==
    /\ \A b \in BookIds : books[b].pages = hist.first[b] + hist.moved[b]
    /\ TotalPages([b \in BookIds |-> books[b].pages], BookIds)
          = TotalPages(hist.first, BookIds)

\* two calls that took a page off book 1 for book 2 ran at the same time, both
\* from the table of the start, and both have committed
C29_Witness ==
    \E t, u \in Slots :
        /\ t # u
        /\ calls[t].pc = "returned" /\ calls[u].pc = "returned"
        /\ calls[t].tx = "committed" /\ calls[u].tx = "committed"
        /\ calls[t].req = TransferRequest(1, 2, 1) /\ calls[u].req = TransferRequest(1, 2, 1)
        /\ \A b \in BookIds : calls[t].pre[b].pages = hist.first[b]
        /\ calls[u].pre = calls[t].pre
        /\ books[1].pages = hist.first[1] - 2

----------------------------------------------------------------------------
(* Properties of the book routes, under SpecBooks *)

\* the route handler `name` has run and returned
Handler(name) ==
    /\ rq.pc = "done"
    /\ rq.trace # <<>>
    /\ rq.trace[Len(rq.trace)] = name

\* C22 (as claimed): when the id of PUT /books/{id} or DELETE /books/{id} is
\* not an integer, or the body of a request is malformed, the handler (PutBook,
\* DeleteBook, PostBook of an authenticated request, TransferPages) reports a
\* 400, writes exactly one response and returns without calling the service.
C22_ClientInputErrors ==
    LET badID == (Handler("PutBook") \/ Handler("DeleteBook")) /\ Atoi(rq.param).err
        badBody == /\ \/ Handler("PutBook")
                      \/ Handler("TransferPages")
                      \/ Handler("PostBook") /\ rq.ctx.hasID
                   /\ ~rq.body.decodes
    IN (badID \/ badBody) => (rq.status = 400 /\ rq.writes = 1 /\ rq.service = <<>>)

\* C25: a book gets its owner id when it is created, the subject id of the
\* token of the creating request, and no step of any request (Update,
\* TransferPages, GetOwnerID, the authorization stages, the handlers) changes
\* it afterwards: as long as the book is there GetOwnerID returns that owner.
C25_OwnerImmutable ==
    [][\A b \in BookIds :
          /\ (books[b].exists /\ books'[b].exists)
             => /\ books'[b].owner = books[b].owner
                /\ GetOwnerID(books', b, FALSE) = GetOwnerID(books, b, FALSE)
          /\ (~books[b].exists /\ books'[b].exists)
             => /\ AtStage("PostBook")
                /\ ParseToken(rq.hdr.tok, Secret).ok
                /\ ParseToken(rq.hdr.tok, Secret).user_id = Num(books'[b].owner)
                /\ GetOwnerID(books', b, FALSE) = [owner |-> books'[b].owner, err |-> ""]]_vars

\* user 2, the owner of a book, has replaced the book by PUT /books/{id}: the
\* book has the pages of the request and user 2 is still its owner
C25_Witness ==
    /\ Handler("PutBook")
    /\ rq.chain = RegisterRoutes("PUT /books/{id}")
    /\ rq.status = 200
    /\ rq.service = <<"UpdateBook">>
    /\ rq.ctx.userID = 2
    /\ books[rq.param.n].pages = MaxPages
    /\ GetOwnerID(books, rq.param.n, FALSE) = [owner |-> 2, err |-> ""]

\* a request for DELETE /books/{id} at the server's router has been answered
DeleteServed ==
    /\ rq.pc = "done"
    /\ \E i \in DOMAIN rq.chain : rq.chain[i].name = "DeleteBook"
    /\ rq.chain[1].name = "JWTAuth"

\* the owner lookup of the request found the book, and its owner
OwnerFound == rq.lookup.done /\ rq.lookup.err = ""

\* C30: in the server's router DELETE /books/{id} asks for both policies:
\* DeleteBook is reached only after EnforceOwnership, first, has found the
\* subject to be the book's owner and AllowRoles, second, has found its role
\* to be admin. An admin who is not the owner is answered 403 'Forbidden: not
\* owner', an owner who is not admin 403 'Forbidden: insufficient role', and in
\* both cases the book is still there.
C30_DeleteNeedsBoth ==
    DeleteServed
    => /\ (\E k \in DOMAIN rq.trace : rq.trace[k] = "DeleteBook")
          => /\ rq.trace = <<"JWTAuth", "EnforceOwnership", "AllowRoles", "DeleteBook">>
             /\ OwnerFound /\ rq.lookup.owner = rq.ctx.userID
             /\ rq.ctx.userRole = "admin"
       /\ (OwnerFound /\ rq.lookup.owner # rq.ctx.userID /\ rq.ctx.userRole = "admin")
          => /\ rq.status = 403 /\ rq.msg = "Forbidden: not owner"
             /\ rq.trace = <<"JWTAuth", "EnforceOwnership">>
             /\ books[rq.param.n].exists
             /\ books[rq.param.n].owner = rq.lookup.owner
       /\ (OwnerFound /\ rq.lookup.owner = rq.ctx.userID /\ rq.ctx.userRole # "admin")
          => /\ rq.status = 403 /\ rq.msg = "Forbidden: insufficient role"
             /\ rq.trace = <<"JWTAuth", "EnforceOwnership", "AllowRoles">>
             /\ books[rq.param.n].exists
             /\ books[rq.param.n].owner = rq.lookup.owner

\* the owner of a book, a user who is no admin, asked for its deletion and was
\* answered 403 by AllowRoles; the book is still there
C30_Witness ==
    /\ DeleteServed
    /\ OwnerFound /\ rq.lookup.owner = rq.ctx.userID
    /\ rq.ctx.userRole = "user"
    /\ rq.status = 403 /\ rq.msg = "Forbidden: insufficient role"
    /\ books[rq.param.n].exists

====
